---- MODULE Spec2Model ----
(***************************************************************************)
(* A model of the limit order book of adamjr36/OrderBook: the OrderBook    *)
(* module (OrderBook.c), one OrderBookSide per side (OrderBookSide.c),     *)
(* the price levels (OrderBookLevel, in HashTable.c), and the two indexes  *)
(* a side keeps: the price -> level OrderedMap and the order id -> level   *)
(* HashTable.                                                              *)
(*                                                                         *)
(* A pointer to a price level is modelled by the price of the level it     *)
(* points to on its side, together with a flag that tells whether the      *)
(* level is still allocated; a pointer whose level was freed is dangling.  *)
(***************************************************************************)
EXTENDS Integers, Sequences, FiniteSets, TLC

(***************************************************************************)
(* Bounds of the model.                                                    *)
(***************************************************************************)
MaxPrice == 2
MaxQty == 2
MaxCalls == 3
MaxOtherTrades == 1
MaxKey == 4
MaxHashKey == 4
MaxNodes == 3

\* program constants
TradeIdWidth == 8
InitialCapacity == 8
TestCapacity == 2

\* order ids are 1, 2, ... in the order of submission; 0 stands for no id
Prices == 1..MaxPrice
Qtys == 1..MaxQty
BUY == "1"
SELL == "0"
Sides == {BUY, SELL}

VARIABLES
    bid_side,         \* book->bid_side
    ask_side,         \* book->ask_side
    executed_trades,  \* book->executed_trades[0 .. trade_count-1]
    trade_count,      \* book->trade_count
    trade_capacity,   \* book->trade_capacity
    counter,          \* the static counter of generate_trade_id
    clock,            \* what time(NULL) returns
    running,          \* FALSE once the process has crashed
    calls,            \* the number of steps taken so far
    submitted,        \* the number of orders submitted so far
    last,             \* the last call: its arguments and what it returned
    before,           \* the book as the last call found it
    observed,         \* what the last OrderBook_get_all_trades returned
    cancelled,        \* the ids OrderBook_remove_order has returned 1 for
    prior,            \* the call before the last, and the book as it found it
    queried,          \* the last call if it was a query: what it returned
    returned,         \* the trade ids OrderBook_add_order has returned so far
    omap,             \* an OrderedMap on its own: root, size and nodes
    iter,             \* the iterator of that map
    model,            \* the sorted finite map that map stands for
    mapret,           \* the last call on map or iter, and what it returned
    table,            \* a HashTable on its own: capacity, size and buckets
    hmodel,           \* the finite map from keys to values that table stands for
    hashret,          \* the last call on table, and what it returned
    olevel,           \* an OrderBookLevel on its own: head, tail and nodes
    fifo,             \* the orders that olevel holds, oldest first
    levelret,         \* the last call on olevel, and what it returned
    admitted,         \* the orders OrderBook_add_order was given so far, by id
    exec              \* a run of the matching loops, one iteration at a time

book == <<bid_side, ask_side, executed_trades, trade_count, trade_capacity>>

vars == <<bid_side, ask_side, executed_trades, trade_count, trade_capacity,
          counter, clock, running, calls, submitted, last, before, observed,
          cancelled, prior, queried, returned, omap, iter, model, mapret,
          table, hmodel, hashret, olevel, fifo, levelret, admitted, exec>>

\* the variables of the OrderedMap taken on its own, and those of the book
mapvars == <<omap, iter, model, mapret>>

\* the variables of the HashTable and of the OrderBookLevel taken on their own
hashvars == <<table, hmodel, hashret>>

levelvars == <<olevel, fifo, levelret>>

\* the variable of the matching loops run one iteration at a time
loopvars == <<exec>>

bookvars == <<bid_side, ask_side, executed_trades, trade_count, trade_capacity,
              counter, clock, calls, submitted, last, before, observed,
              cancelled, prior, queried, returned, admitted>>

(***************************************************************************)
(* Small helpers.                                                          *)
(***************************************************************************)
\* a variant that takes the greater of the two
Max2(x, y) == IF x > y THEN x ELSE y

Min2(x, y) == IF x < y THEN x ELSE y

SetMin(S) == CHOOSE x \in S : \A y \in S : x <= y

SetMax(S) == CHOOSE x \in S : \A y \in S : x >= y

RECURSIVE SumQty(_)
SumQty(q) == IF q = <<>> THEN 0 ELSE Head(q).quantity + SumQty(Tail(q))

\* the first position of an order with this id in a queue, 0 when there is none
RECURSIVE FirstIndex(_, _, _)
FirstIndex(q, id, i) ==
    IF i > Len(q) THEN 0
    ELSE IF q[i].order_id = id THEN i
    ELSE FirstIndex(q, id, i + 1)

\* a variant that unlinks the head whatever node was found
RemoveAt_head(q, i) == Tail(q)

RemoveAt(q, i) == SubSeq(q, 1, i - 1) \o SubSeq(q, i + 1, Len(q))

(***************************************************************************)
(* struct Order                                                            *)
(***************************************************************************)
Order(id, user, qty, side, price, ts) ==
    [order_id |-> id, user_id |-> user, quantity |-> qty, side |-> side,
     price |-> price, timestamp |-> ts]

(***************************************************************************)
(* OrderBookLevel: a FIFO queue of orders at one price.                    *)
(***************************************************************************)
OrderBookLevel_create(price) ==
    [price |-> price, q |-> <<>>, total_quantity |-> 0]

\* a variant that links the new node in front of the head
OrderBookLevel_add_order_front(level, order) ==
    [level EXCEPT !.q = <<order>> \o @,
                  !.total_quantity = @ + order.quantity]

OrderBookLevel_add_order(level, order) ==
    [level EXCEPT !.q = Append(@, order),
                  !.total_quantity = @ + order.quantity]

OrderBookLevel_is_empty(level) == level.q = <<>>

\* pops the head; the caller has checked that the level is not empty
OrderBookLevel_remove_order(level) ==
    [level EXCEPT !.q = Tail(@),
                  !.total_quantity = @ - Head(level.q).quantity]

\* a variant that leaves total_quantity as it was
OrderBookLevel_delete_order_by_id_total(level, id) ==
    LET i == FirstIndex(level.q, id, 1) IN
    IF i = 0 THEN [level |-> level, found |-> FALSE]
    ELSE [level |-> [level EXCEPT !.q = RemoveAt(@, i)], found |-> TRUE]

OrderBookLevel_delete_order_by_id(level, id) ==
    LET i == FirstIndex(level.q, id, 1) IN
    IF i = 0 THEN [level |-> level, found |-> FALSE]
    ELSE [level |-> [level EXCEPT !.q = RemoveAt(@, i),
                                  !.total_quantity = @ - level.q[i].quantity],
          found |-> TRUE]

OrderBookLevel_get_total_quantity(level) == level.total_quantity

OrderBookLevel_reset_total_quantity(level) ==
    [level EXCEPT !.total_quantity = SumQty(level.q)]

(***************************************************************************)
(* The two indexes of a side.  levels is a function from the prices that   *)
(* are keys of the OrderedMap to the level stored under each;              *)
(* order_lookup is a function from the ids that are keys of the HashTable  *)
(* to a level pointer.                                                     *)
(***************************************************************************)
LivePtr(price) == [live |-> TRUE, price |-> price]

\* a freed pointer: its value plays no part any more
DanglingPtr == [live |-> FALSE, price |-> 0]

MapPut(f, k, v) == [x \in (DOMAIN f) \cup {k} |-> IF x = k THEN v ELSE f[x]]

MapDel(f, k) == [x \in (DOMAIN f) \ {k} |-> f[x]]

OrderedMap_size(levels) == Cardinality(DOMAIN levels)

OrderedMap_get_min(levels) == SetMin(DOMAIN levels)

OrderedMap_get_max(levels) == SetMax(DOMAIN levels)

\* table->size: the number of keys of the HashTable
HashTable_size(lookup) == Cardinality(DOMAIN lookup)

OrderBookSide_create(is_buy_side) ==
    [levels |-> <<>>, order_lookup |-> <<>>, is_buy_side |-> is_buy_side]

\* a variant that takes equal prices not to cross
compare_prices_strict(price1, price2, is_buy_side) ==
    IF is_buy_side THEN price1 > price2 ELSE price1 < price2

compare_prices(price1, price2, is_buy_side) ==
    IF is_buy_side THEN price1 >= price2 ELSE price1 <= price2

\* a variant that does not enter the id in the HashTable
OrderBookSide_add_order_unindexed(side, order) ==
    LET level == IF order.price \in DOMAIN side.levels
                 THEN side.levels[order.price]
                 ELSE OrderBookLevel_create(order.price)
    IN [side EXCEPT
          !.levels = MapPut(@, order.price, OrderBookLevel_add_order(level, order))]

\* a variant that leaves the entry of an id the HashTable already holds
OrderBookSide_add_order_first(side, order) ==
    LET level == IF order.price \in DOMAIN side.levels
                 THEN side.levels[order.price]
                 ELSE OrderBookLevel_create(order.price)
    IN [side EXCEPT
          !.levels = MapPut(@, order.price, OrderBookLevel_add_order(level, order)),
          !.order_lookup = IF order.order_id \in DOMAIN @ THEN @
                           ELSE MapPut(@, order.order_id, LivePtr(order.price))]

OrderBookSide_add_order(side, order) ==
    LET level == IF order.price \in DOMAIN side.levels
                 THEN side.levels[order.price]
                 ELSE OrderBookLevel_create(order.price)
    IN [side EXCEPT
          !.levels = MapPut(@, order.price, OrderBookLevel_add_order(level, order)),
          !.order_lookup = MapPut(@, order.order_id, LivePtr(order.price))]

\* OrderBookLevel_destroy of the level stored under price: every pointer to
\* it that the HashTable still holds dangles from here on
FreeLevel(side, price) ==
    [side EXCEPT
       !.levels = MapDel(@, price),
       !.order_lookup = [id \in DOMAIN @ |->
                           IF @[id] = LivePtr(price) THEN DanglingPtr
                           ELSE @[id]]]

(***************************************************************************)
(* OrderBookSide_execute_against.  st is the state of the call: the side,  *)
(* the incoming order (its quantity is what is still to fill) and the      *)
(* filled orders so far.                                                   *)
(***************************************************************************)
\* a variant that pops the head whether or not it was filled in full
FillHead_pop(st, price) ==
    LET level == st.side.levels[price]
        other == Head(level.q)
        filled_quantity == Min2(other.quantity, st.order.quantity)
        filled_order == [other EXCEPT !.quantity = filled_quantity]
    IN [side |-> [st.side EXCEPT !.levels[price] = OrderBookLevel_remove_order(level)],
        order |-> [st.order EXCEPT !.quantity = @ - filled_quantity],
        filled |-> Append(st.filled, filled_order)]

\* a variant that fills one unit at a pass
FillHead_unit(st, price) ==
    LET level == st.side.levels[price]
        other == Head(level.q)
        full == other.quantity = 1
        level2 ==
            IF full THEN OrderBookLevel_remove_order(level)
            ELSE OrderBookLevel_reset_total_quantity(
                   [level EXCEPT !.q[1].quantity = @ - 1])
        filled_order == [other EXCEPT !.quantity = 1]
    IN [side |-> [st.side EXCEPT !.levels[price] = level2],
        order |-> [st.order EXCEPT !.quantity = @ - 1],
        filled |-> Append(st.filled, filled_order)]

\* one pass of the inner loop on the level stored under price
FillHead(st, price) ==
    LET level == st.side.levels[price]
        other == Head(level.q)
        filled_quantity == Min2(other.quantity, st.order.quantity)
        full == other.quantity = filled_quantity
        level2 ==
            IF full THEN OrderBookLevel_remove_order(level)
            ELSE OrderBookLevel_reset_total_quantity(
                   [level EXCEPT !.q[1].quantity = @ - filled_quantity])
        filled_order == [other EXCEPT !.quantity = filled_quantity]
    IN [side |-> [st.side EXCEPT !.levels[price] = level2],
        order |-> [st.order EXCEPT !.quantity = @ - filled_quantity],
        filled |-> Append(st.filled, filled_order)]

\* the inner loop
RECURSIVE ExecuteLevel(_, _)
ExecuteLevel(st, price) ==
    IF st.order.quantity > 0 /\ ~OrderBookLevel_is_empty(st.side.levels[price])
    THEN ExecuteLevel(FillHead(st, price), price)
    ELSE st

\* a variant that looks at the least competitive level
WorstPrice(side) ==
    IF side.is_buy_side THEN OrderedMap_get_min(side.levels)
    ELSE OrderedMap_get_max(side.levels)

\* the level the outer loop looks at
BestPrice(side) ==
    IF side.is_buy_side THEN OrderedMap_get_max(side.levels)
    ELSE OrderedMap_get_min(side.levels)

\* a variant that stops after the first level it has looked at
ExecuteLevels_one(st) ==
    IF st.order.quantity > 0 /\ OrderedMap_size(st.side.levels) > 0
    THEN LET price == BestPrice(st.side) IN
         IF ~compare_prices(price, st.order.price, st.side.is_buy_side) THEN st
         ELSE LET st2 == ExecuteLevel(st, price) IN
              IF OrderBookLevel_is_empty(st2.side.levels[price])
              THEN [st2 EXCEPT !.side = FreeLevel(@, price)]
              ELSE st2
    ELSE st

\* the outer loop
RECURSIVE ExecuteLevels(_)
ExecuteLevels(st) ==
    IF st.order.quantity > 0 /\ OrderedMap_size(st.side.levels) > 0
    THEN LET price == BestPrice(st.side) IN
         IF ~compare_prices(price, st.order.price, st.side.is_buy_side) THEN st
         ELSE LET st2 == ExecuteLevel(st, price) IN
              IF OrderBookLevel_is_empty(st2.side.levels[price])
              THEN ExecuteLevels([st2 EXCEPT !.side = FreeLevel(@, price)])
              ELSE ExecuteLevels(st2)
    ELSE st

\* a variant that leaves the quantity of the incoming order as it was
OrderBookSide_execute_against_keep(side, order) ==
    [ExecuteLevels([side |-> side, order |-> order, filled |-> <<>>])
       EXCEPT !.order = order]

OrderBookSide_execute_against(side, order) ==
    ExecuteLevels([side |-> side, order |-> order, filled |-> <<>>])

\* the price of the best level of a side, 0.0 when the OrderedMap is empty
OrderBookSide_get_best_price(side) ==
    IF OrderedMap_size(side.levels) = 0 THEN 0
    ELSE IF side.is_buy_side THEN OrderedMap_get_max(side.levels)
    ELSE OrderedMap_get_min(side.levels)

OrderBook_get_best_bid(bid) == OrderBookSide_get_best_price(bid)

OrderBook_get_best_ask(ask) == OrderBookSide_get_best_price(ask)

(***************************************************************************)
(* Trades.                                                                 *)
(***************************************************************************)
\* the decimal digits of n, least significant first, at least width of them
RECURSIVE Digits(_, _)
Digits(n, width) ==
    IF n < 10 /\ width <= 1 THEN <<n>>
    ELSE <<n % 10>> \o Digits(n \div 10, width - 1)

Reverse(s) == [i \in 1..Len(s) |-> s[Len(s) + 1 - i]]

\* a variant that writes every id from the same number
generate_trade_id_fixed(n) == <<"TRADE-">> \o Reverse(Digits(0, TradeIdWidth))

\* snprintf(buf, len, "TRADE-%08d", counter): the prefix and the digits
generate_trade_id(n) == <<"TRADE-">> \o Reverse(Digits(n, TradeIdWidth))

\* a variant that prices the trade at the limit of the incoming order
create_trade_at_limit(incoming, matched, id, now) ==
    LET incoming_is_buy == incoming.side = BUY IN
    [trade_id |-> id,
     buy_order_id |-> IF incoming_is_buy THEN incoming.order_id ELSE matched.order_id,
     buy_user_id |-> IF incoming_is_buy THEN incoming.user_id ELSE matched.user_id,
     sell_order_id |-> IF incoming_is_buy THEN matched.order_id ELSE incoming.order_id,
     sell_user_id |-> IF incoming_is_buy THEN matched.user_id ELSE incoming.user_id,
     price |-> incoming.price,
     size |-> matched.quantity,
     timestamp |-> now]

\* a variant that takes the incoming order for the buyer whatever its side
create_trade_incoming_buys(incoming, matched, id, now) ==
    [trade_id |-> id,
     buy_order_id |-> incoming.order_id,
     buy_user_id |-> incoming.user_id,
     sell_order_id |-> matched.order_id,
     sell_user_id |-> matched.user_id,
     price |-> matched.price,
     size |-> matched.quantity,
     timestamp |-> now]

create_trade(incoming, matched, id, now) ==
    LET incoming_is_buy == incoming.side = BUY IN
    [trade_id |-> id,
     buy_order_id |-> IF incoming_is_buy THEN incoming.order_id ELSE matched.order_id,
     buy_user_id |-> IF incoming_is_buy THEN incoming.user_id ELSE matched.user_id,
     sell_order_id |-> IF incoming_is_buy THEN matched.order_id ELSE incoming.order_id,
     sell_user_id |-> IF incoming_is_buy THEN matched.user_id ELSE incoming.user_id,
     price |-> matched.price,
     size |-> matched.quantity,
     timestamp |-> now]

\* the capacity of executed_trades after add_trade_to_book at this count
GrownCapacity(count, capacity) ==
    IF count = capacity THEN (IF capacity = 0 THEN InitialCapacity ELSE capacity * 2)
    ELSE capacity

\* a variant that loses the trade when the array has to grow
add_trade_to_book_full(bk, t) ==
    IF bk.count = bk.capacity THEN bk
    ELSE [bk EXCEPT !.trades = Append(@, t), !.count = @ + 1]

\* a variant that stores the trade at index 0
add_trade_to_book_front(bk, t) ==
    [bk EXCEPT !.capacity = GrownCapacity(bk.count, @),
               !.trades = <<t>> \o @,
               !.count = @ + 1]

\* bk is the log, its count and capacity, the id counter and the ids that
\* OrderBook_add_order has copied out so far
add_trade_to_book(bk, t) ==
    [bk EXCEPT !.capacity = GrownCapacity(bk.count, @),
               !.trades = Append(@, t),
               !.count = @ + 1]

\* the loop of OrderBook_add_order over the filled orders, from index i on
RECURSIVE RecordTrades(_, _, _, _, _)
RecordTrades(bk, incoming, filled, i, now) ==
    IF i > Len(filled) THEN bk
    ELSE LET t == create_trade(incoming, filled[i], generate_trade_id(bk.counter), now)
             bk2 == add_trade_to_book([bk EXCEPT !.counter = @ + 1], t)
         IN RecordTrades([bk2 EXCEPT !.trade_ids = Append(@, t.trade_id)],
                         incoming, filled, i + 1, now)

\* OrderBook_get_all_trades: a copy of the log
OrderBook_get_all_trades(trades, count) == SubSeq(trades, 1, count)

(***************************************************************************)
(* OrderBookSide_delete_order_by_id.  The pointer the HashTable returns is *)
(* dereferenced whether or not its level is still allocated.  Reading a    *)
(* freed level is undefined: the process may crash, the read may find no   *)
(* order of this id, or the memory may by now hold another level of the    *)
(* book, whose queue is then searched.  An outcome is the side, the other  *)
(* side, the value returned and whether the process crashed.               *)
(***************************************************************************)
Outcome(side, other, ret, crashed) ==
    [side |-> side, other |-> other, ret |-> ret, crashed |-> crashed]

\* the level under price holds an order with this id
HoldsId(side, price, id) == FirstIndex(side.levels[price].q, id, 1) > 0

\* a variant that leaves the queue of the level as it is
DeleteInLevel_none(side, price, id) == side

DeleteInLevel(side, price, id) ==
    [side EXCEPT !.levels[price] =
        OrderBookLevel_delete_order_by_id(@, id).level]

OrderBookSide_delete_order_by_id(side, other, id) ==
    IF id \notin DOMAIN side.order_lookup THEN {Outcome(side, other, 0, FALSE)}
    ELSE LET ptr == side.order_lookup[id] IN
    IF ptr.live
    THEN IF HoldsId(side, ptr.price, id)
         THEN {Outcome([DeleteInLevel(side, ptr.price, id) EXCEPT
                           !.order_lookup = MapDel(@, id)],
                       other, 1, FALSE)}
         ELSE {Outcome(side, other, 0, FALSE)}
    ELSE {Outcome(side, other, 0, TRUE), Outcome(side, other, 0, FALSE)}
         \cup {Outcome([DeleteInLevel(side, p, id) EXCEPT
                           !.order_lookup = MapDel(@, id)],
                       other, 1, FALSE) :
                 p \in {x \in DOMAIN side.levels : HoldsId(side, x, id)}}
         \cup {Outcome([side EXCEPT !.order_lookup = MapDel(@, id)],
                       DeleteInLevel(other, p, id), 1, FALSE) :
                 p \in {x \in DOMAIN other.levels : HoldsId(other, x, id)}}

\* OrderBook_remove_order: the bid side first, the ask side if that returned 0
OrderBook_remove_order(bid, ask, id) ==
    UNION {IF ob.crashed \/ ob.ret = 1
           THEN {[bid |-> ob.side, ask |-> ob.other, ret |-> ob.ret,
                  crashed |-> ob.crashed]}
           ELSE {[bid |-> oa.other, ask |-> oa.side, ret |-> oa.ret,
                  crashed |-> oa.crashed] :
                   oa \in OrderBookSide_delete_order_by_id(ob.other, ob.side, id)} :
             ob \in OrderBookSide_delete_order_by_id(bid, ask, id)}

(***************************************************************************)
(* OrderedMap: an AVL tree.  The nodes live in a heap, a function from     *)
(* addresses to nodes; address 0 is NULL.  What a freed node holds is not  *)
(* defined, and the heap keeps nothing of it.  A map is a record of the    *)
(* root, the size and the heap that holds its nodes.                       *)
(***************************************************************************)
\* the addresses malloc gives out: as many as a map can have nodes
Addrs == 1..MaxKey

Keys == 1..MaxKey

\* the values stored: pointers, told apart by name
Values == {"v1", "v2"}

AVLNode(key, value, height, left, right, live) ==
    [key |-> key, value |-> value, height |-> height, left |-> left,
     right |-> right, live |-> live]

\* memory that is not in use
NoNode == AVLNode(0, "", 0, 0, 0, FALSE)

OrderedMap_create == [root |-> 0, size |-> 0, heap |-> [a \in Addrs |-> NoNode]]

get_height(h, node) == IF node = 0 THEN 0 ELSE h[node].height

get_balance(h, node) ==
    IF node = 0 THEN 0
    ELSE get_height(h, h[node].left) - get_height(h, h[node].right)

\* node->height = 1 + max(height of left, height of right)
SetHeight(h, node) ==
    [h EXCEPT ![node].height =
        1 + (IF get_height(h, h[node].left) > get_height(h, h[node].right)
             THEN get_height(h, h[node].left)
             ELSE get_height(h, h[node].right))]

\* each of these returns the heap and the root of the subtree
rotate_right(h, y) ==
    LET x == h[y].left
        T == h[x].right
        h1 == [h EXCEPT ![x].right = y, ![y].left = T]
    IN [h |-> SetHeight(SetHeight(h1, y), x), node |-> x]

rotate_left(h, x) ==
    LET y == h[x].right
        T == h[y].left
        h1 == [h EXCEPT ![y].left = x, ![x].right = T]
    IN [h |-> SetHeight(SetHeight(h1, x), y), node |-> y]

\* malloc gives out the lowest address that is not in use
create_node(h, key, value) ==
    LET node == SetMin({a \in Addrs : ~h[a].live})
    IN [h |-> [h EXCEPT ![node] = AVLNode(key, value, 1, 0, 0, TRUE)],
        node |-> node]

\* free(node)
FreeNode(h, node) == [h EXCEPT ![node] = NoNode]

RECURSIVE find_min(_, _)
find_min(h, node) ==
    IF node # 0 /\ h[node].left # 0 THEN find_min(h, h[node].left) ELSE node

RECURSIVE find_max(_, _)
find_max(h, node) ==
    IF node # 0 /\ h[node].right # 0 THEN find_max(h, h[node].right) ELSE node

\* the tail of insert_node: the height and the four cases of rebalancing
BalanceInserted(h, node, key) ==
    LET h1 == SetHeight(h, node)
        balance == get_balance(h1, node)
        left == h1[node].left
        right == h1[node].right
    IN IF balance > 1 /\ key < h1[left].key THEN rotate_right(h1, node)
       ELSE IF balance < -1 /\ key > h1[right].key THEN rotate_left(h1, node)
       ELSE IF balance > 1 /\ key > h1[left].key
       THEN LET r == rotate_left(h1, left)
            IN rotate_right([r.h EXCEPT ![node].left = r.node], node)
       ELSE IF balance < -1 /\ key < h1[right].key
       THEN LET r == rotate_right(h1, right)
            IN rotate_left([r.h EXCEPT ![node].right = r.node], node)
       ELSE [h |-> h1, node |-> node]

RECURSIVE insert_node(_, _, _, _)
insert_node(h, node, key, value) ==
    IF node = 0
    THEN LET c == create_node(h, key, value)
         IN [h |-> c.h, node |-> c.node, inserted |-> 1]
    ELSE IF key < h[node].key
    THEN LET r == insert_node(h, h[node].left, key, value)
             b == BalanceInserted([r.h EXCEPT ![node].left = r.node], node, key)
         IN [h |-> b.h, node |-> b.node, inserted |-> r.inserted]
    ELSE IF key > h[node].key
    THEN LET r == insert_node(h, h[node].right, key, value)
             b == BalanceInserted([r.h EXCEPT ![node].right = r.node], node, key)
         IN [h |-> b.h, node |-> b.node, inserted |-> r.inserted]
    ELSE [h |-> [h EXCEPT ![node].value = value], node |-> node, inserted |-> 0]

\* a variant that recomputes the height and leaves the subtree as it is
BalanceRemoved_height(h, node) == [h |-> SetHeight(h, node), node |-> node]

\* the tail of remove_node
BalanceRemoved(h, node) ==
    LET h1 == SetHeight(h, node)
        balance == get_balance(h1, node)
        left == h1[node].left
        right == h1[node].right
    IN IF balance > 1 /\ get_balance(h1, left) >= 0 THEN rotate_right(h1, node)
       ELSE IF balance > 1 /\ get_balance(h1, left) < 0
       THEN LET r == rotate_left(h1, left)
            IN rotate_right([r.h EXCEPT ![node].left = r.node], node)
       ELSE IF balance < -1 /\ get_balance(h1, right) <= 0
       THEN rotate_left(h1, node)
       ELSE IF balance < -1 /\ get_balance(h1, right) > 0
       THEN LET r == rotate_right(h1, right)
            IN rotate_left([r.h EXCEPT ![node].right = r.node], node)
       ELSE [h |-> h1, node |-> node]

\* removed is what the call has written to *removed, 0 when it wrote nothing
RECURSIVE remove_node(_, _, _)
remove_node(h, node, key) ==
    IF node = 0 THEN [h |-> h, node |-> 0, removed |-> 0]
    ELSE IF key < h[node].key
    THEN LET r == remove_node(h, h[node].left, key)
             b == BalanceRemoved([r.h EXCEPT ![node].left = r.node], node)
         IN [h |-> b.h, node |-> b.node, removed |-> r.removed]
    ELSE IF key > h[node].key
    THEN LET r == remove_node(h, h[node].right, key)
             b == BalanceRemoved([r.h EXCEPT ![node].right = r.node], node)
         IN [h |-> b.h, node |-> b.node, removed |-> r.removed]
    ELSE IF h[node].left = 0 \/ h[node].right = 0
    THEN LET temp == IF h[node].left # 0 THEN h[node].left ELSE h[node].right
         IN [h |-> FreeNode(h, node), node |-> temp, removed |-> 1]
    ELSE LET temp == find_min(h, h[node].right)
             h1 == [h EXCEPT ![node].key = h[temp].key,
                             ![node].value = h[temp].value]
             r == remove_node(h1, h1[node].right, h[temp].key)
             b == BalanceRemoved([r.h EXCEPT ![node].right = r.node], node)
         IN [h |-> b.h, node |-> b.node, removed |-> 1]

\* a variant that takes every key for new
OrderedMap_insert_new(map, key, value) ==
    LET r == insert_node(map.heap, map.root, key, value)
    IN [map |-> [root |-> r.node, size |-> map.size + 1, heap |-> r.h],
        ret |-> 1]

\* a variant that leaves the size as it was
OrderedMap_remove_keep(map, key) ==
    LET r == remove_node(map.heap, map.root, key)
    IN [map |-> [root |-> r.node, size |-> map.size, heap |-> r.h],
        ret |-> r.removed]

\* OrderedMap_insert and OrderedMap_remove return the map and their result
OrderedMap_insert(map, key, value) ==
    LET r == insert_node(map.heap, map.root, key, value)
    IN [map |-> [root |-> r.node,
                 size |-> IF r.inserted = 1 THEN map.size + 1 ELSE map.size,
                 heap |-> r.h],
        ret |-> r.inserted]

OrderedMap_remove(map, key) ==
    LET r == remove_node(map.heap, map.root, key)
    IN [map |-> [root |-> r.node,
                 size |-> IF r.removed = 1 THEN map.size - 1 ELSE map.size,
                 heap |-> r.h],
        ret |-> r.removed]

\* the loop of OrderedMap_get from the node current on
RECURSIVE Descend(_, _, _)
Descend(h, current, key) ==
    IF current = 0 THEN 0
    ELSE IF key = h[current].key THEN current
    ELSE Descend(h, IF key < h[current].key THEN h[current].left
                    ELSE h[current].right, key)

\* a lookup returns its result and what it wrote to *key and *value
Found(h, node) == [ret |-> 1, key |-> h[node].key, value |-> h[node].value]

NotFound == [ret |-> 0, key |-> 0, value |-> ""]

OrderedMap_get(map, key) ==
    LET node == Descend(map.heap, map.root, key)
    IN IF node = 0 THEN NotFound ELSE Found(map.heap, node)

\* OrderedMap_get_min, OrderedMap_get_max and OrderedMap_size of the tree
AVL_get_min(map) ==
    IF map.root = 0 THEN NotFound
    ELSE Found(map.heap, find_min(map.heap, map.root))

AVL_get_max(map) ==
    IF map.root = 0 THEN NotFound
    ELSE Found(map.heap, find_max(map.heap, map.root))

AVL_size(map) == map.size

\* the iterator is its field current; the map is the one map there is
OrderedMap_front(map) == find_min(map.heap, map.root)

OrderedMap_back(map) == find_max(map.heap, map.root)

OrderedMapIterator_get(map, current) ==
    IF current = 0 THEN NotFound ELSE Found(map.heap, current)

\* the search from the root of OrderedMapIterator_next: the last node on the
\* way to key at which the search went left
RECURSIVE NextAncestor(_, _, _, _)
NextAncestor(h, temp, key, parent) ==
    IF temp = 0 THEN parent
    ELSE IF key < h[temp].key THEN NextAncestor(h, h[temp].left, key, temp)
    ELSE IF key > h[temp].key THEN NextAncestor(h, h[temp].right, key, parent)
    ELSE parent

RECURSIVE PrevAncestor(_, _, _, _)
PrevAncestor(h, temp, key, parent) ==
    IF temp = 0 THEN parent
    ELSE IF key > h[temp].key THEN PrevAncestor(h, h[temp].right, key, temp)
    ELSE IF key < h[temp].key THEN PrevAncestor(h, h[temp].left, key, parent)
    ELSE parent

\* a variant that goes to the right child
OrderedMapIterator_next_child(map, current) ==
    IF current = 0 THEN 0 ELSE map.heap[current].right

\* OrderedMapIterator_next and _prev: the new value of current; they return
\* 1 when it is not NULL
OrderedMapIterator_next(map, current) ==
    IF current = 0 THEN 0
    ELSE IF map.heap[current].right # 0
    THEN find_min(map.heap, map.heap[current].right)
    ELSE NextAncestor(map.heap, map.root, map.heap[current].key, 0)

OrderedMapIterator_prev(map, current) ==
    IF current = 0 THEN 0
    ELSE IF map.heap[current].left # 0
    THEN find_max(map.heap, map.heap[current].left)
    ELSE PrevAncestor(map.heap, map.root, map.heap[current].key, 0)

(***************************************************************************)
(* HashTable: separate chaining.  A key is the sequence of its characters, *)
(* a node is a key with its value, and a bucket is the chain of its nodes, *)
(* the head first.  Allocations succeed.                                   *)
(***************************************************************************)
\* the keys "k0", "k1", ... in the manner of test_resize
HashKeys == {<<107, 48 + i>> : i \in 0..MaxHashKey}

\* the loop of hash (djb2).  For the keys drawn the value stays far below
\* 2^31, so the unsigned long never wraps
RECURSIVE hash_from(_, _)
hash_from(h, str) ==
    IF str = <<>> THEN h
    ELSE hash_from(((h * 32) + h) + Head(str), Tail(str))

hash(str) == hash_from(5381, str)

HashNode(key, value) == [key |-> key, value |-> value]

HashTable_create(capacity) ==
    [capacity |-> capacity, size |-> 0,
     buckets |-> [i \in 0..(capacity - 1) |-> <<>>]]

\* the nodes of the table in the order the loops of resize_table visit them
RECURSIVE Chains(_, _)
Chains(t, i) ==
    IF i = t.capacity THEN <<>> ELSE t.buckets[i] \o Chains(t, i + 1)

\* each node in turn becomes the head of the bucket of its new index
RECURSIVE Relink(_, _, _)
Relink(nodes, new_buckets, new_capacity) ==
    IF nodes = <<>> THEN new_buckets
    ELSE LET node == Head(nodes)
             new_index == hash(node.key) % new_capacity
         IN  Relink(Tail(nodes),
                    [new_buckets EXCEPT ![new_index] = <<node>> \o @],
                    new_capacity)

\* a variant that leaves each chain in the bucket of its old index
resize_table_index(t) ==
    LET new_capacity == t.capacity * 2 IN
    [capacity |-> new_capacity, size |-> t.size,
     buckets |-> [i \in 0..(new_capacity - 1) |->
                     IF i < t.capacity THEN t.buckets[i] ELSE <<>>]]

resize_table(t) ==
    LET new_capacity == t.capacity * 2 IN
    [capacity |-> new_capacity, size |-> t.size,
     buckets |-> Relink(Chains(t, 0),
                        [i \in 0..(new_capacity - 1) |-> <<>>],
                        new_capacity)]

\* the place in the chain of the first node with this key, 0 if there is none
RECURSIVE KeyIndex(_, _, _)
KeyIndex(chain, key, i) ==
    IF i > Len(chain) THEN 0
    ELSE IF chain[i].key = key THEN i
    ELSE KeyIndex(chain, key, i + 1)

\* size / capacity >= 0.75 doubles the table first, whether or not the key
\* is new
HashTable_add(t0, key, value) ==
    LET t == IF 4 * t0.size >= 3 * t0.capacity THEN resize_table(t0) ELSE t0
        index == hash(key) % t.capacity
        i == KeyIndex(t.buckets[index], key, 1)
    IN  IF i # 0
        THEN [ret |-> 0,
              table |-> [t EXCEPT !.buckets[index][i].value = value]]
        ELSE [ret |-> 0,
              table |-> [t EXCEPT !.buckets[index] =
                                      <<HashNode(key, value)>> \o @,
                                  !.size = @ + 1]]

HashTable_get(t, key) ==
    LET index == hash(key) % t.capacity
        i == KeyIndex(t.buckets[index], key, 1)
    IN  IF i # 0 THEN t.buckets[index][i].value ELSE "NULL"

HashTable_remove(t, key) ==
    LET index == hash(key) % t.capacity
        i == KeyIndex(t.buckets[index], key, 1)
    IN  IF i # 0
        THEN [ret |-> 0,
              table |-> [t EXCEPT !.buckets[index] = RemoveAt(@, i),
                                  !.size = @ - 1]]
        ELSE [ret |-> -1, table |-> t]

(***************************************************************************)
(* OrderBookLevel as the linked list it is: the OrderNodes live in a heap, *)
(* a function from addresses to nodes, address 0 is NULL, and malloc hands *)
(* out the lowest address that is free.                                    *)
(***************************************************************************)
ListAddrs == 1..MaxNodes

OrderNode(order, next) == [order |-> order, next |-> next, live |-> TRUE]

\* what a freed or never allocated address holds
NoOrderNode ==
    [order |-> Order(0, "", 0, SELL, 0, 0), next |-> 0, live |-> FALSE]

List_create ==
    [head |-> 0, tail |-> 0, total_quantity |-> 0,
     nodes |-> [a \in ListAddrs |-> NoOrderNode]]

create_order_node(l, order) ==
    LET node == CHOOSE a \in ListAddrs :
                    /\ ~l.nodes[a].live
                    /\ \A b \in ListAddrs : ~l.nodes[b].live => a <= b
    IN  [node |-> node,
         level |-> [l EXCEPT !.nodes[node] = OrderNode(order, 0)]]

destroy_order_node(l, node) == [l EXCEPT !.nodes[node] = NoOrderNode]

\* the caller has checked that an address is free
List_add_order(l0, order) ==
    LET c == create_order_node(l0, order)
        node == c.node
        l == c.level
        linked == IF l.head = 0
                  THEN [l EXCEPT !.head = node, !.tail = node]
                  ELSE [l EXCEPT !.nodes[l.tail].next = node, !.tail = node]
    IN  [linked EXCEPT !.total_quantity = @ + order.quantity]

List_remove_order(l) ==
    IF l.head = 0 THEN [ret |-> 0, order |-> NoOrderNode.order, level |-> l]
    ELSE LET node == l.head
             head == l.nodes[node].next
             popped == [l EXCEPT !.head = head,
                                 !.tail = IF head = 0 THEN 0 ELSE @,
                                 !.total_quantity =
                                     @ - l.nodes[node].order.quantity]
         IN  [ret |-> 1, order |-> l.nodes[node].order,
              level |-> destroy_order_node(popped, node)]

\* the walk of delete_order_by_id: the first node with the id and the node
\* before it, current 0 if no node has the id
RECURSIVE FindNode(_, _, _, _)
FindNode(l, id, prev, current) ==
    IF current = 0 THEN [prev |-> 0, current |-> 0]
    ELSE IF l.nodes[current].order.order_id = id
         THEN [prev |-> prev, current |-> current]
         ELSE FindNode(l, id, current, l.nodes[current].next)

\* a variant that leaves tail where it was
List_delete_order_by_id_tail(l, id) ==
    LET f == FindNode(l, id, 0, l.head)
        current == f.current
    IN  IF current = 0 THEN [ret |-> 0, level |-> l]
        ELSE LET next == l.nodes[current].next
                 unlinked ==
                     IF f.prev # 0 THEN [l EXCEPT !.nodes[f.prev].next = next]
                     ELSE [l EXCEPT !.head = next]
                 counted ==
                     [unlinked EXCEPT !.total_quantity =
                                 @ - l.nodes[current].order.quantity]
             IN  [ret |-> 1, level |-> destroy_order_node(counted, current)]

List_delete_order_by_id(l, id) ==
    LET f == FindNode(l, id, 0, l.head)
        current == f.current
    IN  IF current = 0 THEN [ret |-> 0, level |-> l]
        ELSE LET next == l.nodes[current].next
                 unlinked ==
                     IF f.prev # 0 THEN [l EXCEPT !.nodes[f.prev].next = next]
                     ELSE [l EXCEPT !.head = next]
                 retailed ==
                     IF current = l.tail THEN [unlinked EXCEPT !.tail = f.prev]
                     ELSE unlinked
                 counted ==
                     [retailed EXCEPT !.total_quantity =
                                 @ - l.nodes[current].order.quantity]
             IN  [ret |-> 1, level |-> destroy_order_node(counted, current)]

\* the orders met from a node on by following next, at most n of them
RECURSIVE ListFrom(_, _, _)
ListFrom(l, node, n) ==
    IF node = 0 \/ n = 0 THEN <<>>
    ELSE <<l.nodes[node].order>> \o ListFrom(l, l.nodes[node].next, n - 1)

\* the queue of the level, the head first
ListOrders(l) == ListFrom(l, l.head, MaxNodes + 1)

\* a call on the HashTable: what it was given, what it returned, and the
\* table and the finite map as it found them
HashCall(op, key, value, ret) ==
    [op |-> op, key |-> key, value |-> value, ret |-> ret,
     table |-> table, model |-> hmodel]

\* a call on the level: what it was given or handed back, what it returned,
\* the level and its orders as it found them, and the call before it
LevelCall(op, order, ret) ==
    [op |-> op, order |-> order, ret |-> ret, level |-> olevel, fifo |-> fifo,
     prev |-> [op |-> levelret.op, order |-> levelret.order,
               ret |-> levelret.ret, fifo |-> levelret.fifo]]

NoLevelCall ==
    [op |-> "create", order |-> NoOrderNode.order, ret |-> 0,
     level |-> List_create, fifo |-> <<>>,
     prev |-> [op |-> "", order |-> NoOrderNode.order, ret |-> 0,
               fifo |-> <<>>]]

(***************************************************************************)
(* The state machine.                                                      *)
(***************************************************************************)
NoOrder == Order(0, "", 0, SELL, 0, 0)

\* the first order of this id in the queue of a level
OrderBookLevel_get_order_by_id(level, id) ==
    LET i == FirstIndex(level.q, id, 1) IN
    IF i = 0 THEN [ret |-> 0, order |-> NoOrder, crashed |-> FALSE]
    ELSE [ret |-> 1, order |-> level.q[i], crashed |-> FALSE]

\* OrderBookSide_get_order_by_id: the outcomes, as for the cancel; a freed
\* level may crash the read, hold no such order, or be another level by now
OrderBookSide_get_order_by_id(side, id) ==
    IF id \notin DOMAIN side.order_lookup
    THEN {[ret |-> 0, order |-> NoOrder, crashed |-> FALSE]}
    ELSE LET ptr == side.order_lookup[id] IN
    IF ptr.live THEN {OrderBookLevel_get_order_by_id(side.levels[ptr.price], id)}
    ELSE {[ret |-> 0, order |-> NoOrder, crashed |-> TRUE],
          [ret |-> 0, order |-> NoOrder, crashed |-> FALSE]}
         \cup {OrderBookLevel_get_order_by_id(side.levels[p], id) :
                 p \in DOMAIN side.levels}

\* what OrderBookSide_get_levels reports of a level
OrderBookLevelView(price, level) ==
    [price |-> price, size |-> OrderBookLevel_get_total_quantity(level)]

\* the keys of the OrderedMap in the order the iterator of
\* OrderBookSide_get_levels visits them: from the front with next
RECURSIVE Walk_front(_, _)
Walk_front(keys, is_buy_side) ==
    IF keys = {} THEN <<>>
    ELSE LET p == SetMin(keys)
         IN <<p>> \o Walk_front(keys \ {p}, is_buy_side)

\* from the back with prev on a buy side, from the front with next on a sell
\* side
RECURSIVE Walk(_, _)
Walk(keys, is_buy_side) ==
    IF keys = {} THEN <<>>
    ELSE LET p == IF is_buy_side THEN SetMax(keys) ELSE SetMin(keys)
         IN <<p>> \o Walk(keys \ {p}, is_buy_side)

\* a variant that takes k as the count whatever k is
OrderBookSide_get_levels_k(side, k) ==
    LET walk == Walk(DOMAIN side.levels, side.is_buy_side)
        i == Min2(k, Len(walk))
    IN IF k < 0
       THEN [ret |-> 0, levels |-> <<>>, level_count |-> k]
       ELSE [ret |-> 1,
             levels |-> [j \in 1..i |->
                           OrderBookLevelView(walk[j], side.levels[walk[j]])],
             level_count |-> k]

\* a variant that walks every side from the front with next
OrderBookSide_get_levels_front(side, k) ==
    LET level_count == IF k = 0 THEN OrderedMap_size(side.levels) ELSE k
        walk == Walk_front(DOMAIN side.levels, side.is_buy_side)
        i == Min2(level_count, Len(walk))
    IN IF level_count < 0
       THEN [ret |-> 0, levels |-> <<>>, level_count |-> level_count]
       ELSE [ret |-> 1,
             levels |-> [j \in 1..i |->
                           OrderBookLevelView(walk[j], side.levels[walk[j]])],
             level_count |-> level_count]

\* OrderBookSide_get_levels(side, k, &levels, &level_count): levels is the
\* part of the array the loop has written, level_count what *level_count
\* holds on return.  A negative count makes the size of the malloc wrap
\* around, and the malloc fail.
OrderBookSide_get_levels(side, k) ==
    LET level_count == IF k = 0 THEN OrderedMap_size(side.levels) ELSE k
        walk == Walk(DOMAIN side.levels, side.is_buy_side)
        i == Min2(level_count, Len(walk))
    IN IF level_count < 0
       THEN [ret |-> 0, levels |-> <<>>, level_count |-> level_count]
       ELSE [ret |-> 1,
             levels |-> [j \in 1..i |->
                           OrderBookLevelView(walk[j], side.levels[walk[j]])],
             level_count |-> level_count]

\* OrderBook_get_top_levels(book, k, &bid_levels, &bid_count, &ask_levels,
\* &ask_count); the caller passes in empty arrays and counts of 0
OrderBook_get_top_levels(bid, ask, k) ==
    LET b == OrderBookSide_get_levels(bid, k)
        a == OrderBookSide_get_levels(ask, k)
    IN IF b.ret = 0
       THEN [ret |-> 0, bid_levels |-> <<>>, bid_count |-> b.level_count,
             ask_levels |-> <<>>, ask_count |-> 0]
       ELSE IF a.ret = 0
       THEN [ret |-> 0, bid_levels |-> <<>>, bid_count |-> 0,
             ask_levels |-> <<>>, ask_count |-> a.level_count]
       ELSE [ret |-> 1, bid_levels |-> b.levels, bid_count |-> b.level_count,
             ask_levels |-> a.levels, ask_count |-> a.level_count]

\* a variant that returns the first trade of the log
OrderBook_get_trade_first(trades, count, trade_id) ==
    IF count = 0 THEN <<>> ELSE <<trades[1]>>

\* OrderBook_get_trade(book, trade_id): a copy of the first trade of the log
\* whose id compares equal, <<>> for NULL
OrderBook_get_trade(trades, count, trade_id) ==
    LET hits == {i \in 1..count : trades[i].trade_id = trade_id}
    IN IF hits = {} THEN <<>> ELSE <<trades[SetMin(hits)]>>

\* what a query was asked, the book it found, and what it gave back
Query(op, k, id, found, top, trade) ==
    [op |-> op, k |-> k, id |-> id, found |-> found, top |-> top,
     trade |-> trade]

NoTop == [ret |-> 0, bid_levels |-> <<>>, bid_count |-> 0,
          ask_levels |-> <<>>, ask_count |-> 0]

NoQuery == Query("none", 0, <<>>, <<>>, NoTop, <<>>)

Call(op, order, id, has_tc, ret_ids, tc, ret) ==
    [op |-> op, order |-> order, id |-> id, has_tc |-> has_tc,
     ret_ids |-> ret_ids, tc |-> tc, ret |-> ret]

Snapshot == [bid_side |-> bid_side, ask_side |-> ask_side,
             executed_trades |-> executed_trades, trade_count |-> trade_count]

\* no iterator yet: OrderedMapIterator functions take NULL for exhausted.
\* current is the node the iterator points to; on is the key it stands on
\* (0 past either end, -1 once its key was removed); fresh tells that the map
\* was not modified since OrderedMap_front or OrderedMap_back made it
NoIterator == [current |-> 0, on |-> 0, fresh |-> FALSE]

\* a call on the map or iterator: op and arguments, result, what a lookup
\* wrote, and the keys, size and iterator position the call found
MapCall(op, key, value, ret, out) ==
    [op |-> op, key |-> key, value |-> value, ret |-> ret, out |-> out,
     keys |-> DOMAIN model, size |-> omap.size, on |-> iter.on]

\* no run of the matching loops is under way.  pc is the place in
\* OrderBookSide_execute_against: "outer" before the test of the outer loop,
\* "inner" before the test of the inner loop on the level under price,
\* "evict" behind the inner loop, "done" at the return; st is the state of the
\* call, given and start the order and the side it began with, outer0 and
\* inner0 the state when the iteration last completed of either loop began,
\* and step what was done last
NoExec ==
    LET st == [side |-> OrderBookSide_create(TRUE), order |-> NoOrder,
               filled |-> <<>>]
    IN  [pc |-> "idle", st |-> st, price |-> 0, given |-> NoOrder,
         start |-> st.side, outer0 |-> st, inner0 |-> st, step |-> "none"]

Init ==
    /\ bid_side = OrderBookSide_create(TRUE)
    /\ ask_side = OrderBookSide_create(FALSE)
    /\ executed_trades = <<>>
    /\ trade_count = 0
    /\ trade_capacity = 0
    /\ counter = 0
    /\ clock = 0
    /\ running = TRUE
    /\ calls = 0
    /\ submitted = 0
    /\ last = Call("create", NoOrder, 0, FALSE, <<>>, 0, 0)
    /\ before = Snapshot
    /\ observed = <<>>
    /\ cancelled = {}
    /\ prior = [call |-> last, book |-> before]
    /\ queried = NoQuery
    /\ returned = {}
    /\ omap = OrderedMap_create
    /\ iter = NoIterator
    /\ model = <<>>
    /\ mapret = MapCall("create", 0, "", 0, NotFound)
    /\ table = HashTable_create(TestCapacity)
    /\ hmodel = <<>>
    /\ hashret = HashCall("create", <<>>, "", 0)
    /\ olevel = List_create
    /\ fifo = <<>>
    /\ levelret = NoLevelCall
    /\ admitted = <<>>
    /\ exec = NoExec

\* a step is taken by a running process, within the bound
Step ==
    /\ running
    /\ calls < MaxCalls
    /\ calls' = calls + 1

\* a variant that returns before it records the trades when trade_count is
\* NULL
AddOrder_early(order, has_tc) ==
    LET is_buy == order.side = BUY
        ex == OrderBookSide_execute_against(
                 IF is_buy THEN ask_side ELSE bid_side, order)
        incoming == ex.order
        bk == RecordTrades([trades |-> executed_trades, count |-> trade_count,
                            capacity |-> trade_capacity, counter |-> counter,
                            trade_ids |-> <<>>],
                           incoming, ex.filled, 1, clock)
        num_trades_executed == Len(ex.filled)
        own == IF is_buy THEN (IF incoming.quantity > 0
                               THEN OrderBookSide_add_order(bid_side, incoming)
                               ELSE bid_side)
               ELSE (IF incoming.quantity > 0
                     THEN OrderBookSide_add_order(ask_side, incoming)
                     ELSE ask_side)
    IN /\ Step
       /\ submitted' = submitted + 1
       /\ bid_side' = IF is_buy THEN own ELSE ex.side
       /\ ask_side' = IF is_buy THEN ex.side ELSE own
       /\ executed_trades' = IF has_tc THEN bk.trades ELSE executed_trades
       /\ trade_count' = IF has_tc THEN bk.count ELSE trade_count
       /\ trade_capacity' = IF has_tc THEN bk.capacity ELSE trade_capacity
       /\ counter' = IF has_tc THEN bk.counter ELSE counter
       /\ last' = Call("add", order, order.order_id, has_tc,
                       IF num_trades_executed = 0 \/ ~has_tc THEN <<>>
                       ELSE bk.trade_ids,
                       IF has_tc THEN num_trades_executed ELSE -1, 0)
       /\ before' = Snapshot
       /\ cancelled' = cancelled \ {order.order_id}
       /\ prior' = [call |-> last, book |-> before]
       /\ queried' = NoQuery
       /\ returned' = returned \cup {last'.ret_ids[i] : i \in 1..Len(last'.ret_ids)}
       /\ admitted' = MapPut(admitted, order.order_id, order)
       /\ UNCHANGED <<clock, running, observed, mapvars, hashvars, levelvars,
                      loopvars>>

\* OrderBook_add_order(book, order, trade_count); has_tc tells whether the
\* trade_count pointer is given
AddOrder(order, has_tc) ==
    LET is_buy == order.side = BUY
        ex == OrderBookSide_execute_against(
                 IF is_buy THEN ask_side ELSE bid_side, order)
        incoming == ex.order
        bk == RecordTrades([trades |-> executed_trades, count |-> trade_count,
                            capacity |-> trade_capacity, counter |-> counter,
                            trade_ids |-> <<>>],
                           incoming, ex.filled, 1, clock)
        num_trades_executed == Len(ex.filled)
        own == IF is_buy THEN (IF incoming.quantity > 0
                               THEN OrderBookSide_add_order(bid_side, incoming)
                               ELSE bid_side)
               ELSE (IF incoming.quantity > 0
                     THEN OrderBookSide_add_order(ask_side, incoming)
                     ELSE ask_side)
    IN /\ Step
       /\ submitted' = submitted + 1
       /\ bid_side' = IF is_buy THEN own ELSE ex.side
       /\ ask_side' = IF is_buy THEN ex.side ELSE own
       /\ executed_trades' = bk.trades
       /\ trade_count' = bk.count
       /\ trade_capacity' = bk.capacity
       /\ counter' = bk.counter
       /\ last' = Call("add", order, order.order_id, has_tc,
                       IF num_trades_executed = 0 \/ ~has_tc THEN <<>>
                       ELSE bk.trade_ids,
                       IF has_tc THEN num_trades_executed ELSE -1, 0)
       /\ before' = Snapshot
       /\ cancelled' = cancelled \ {order.order_id}
       /\ prior' = [call |-> last, book |-> before]
       /\ queried' = NoQuery
       /\ returned' = returned \cup {last'.ret_ids[i] : i \in 1..Len(last'.ret_ids)}
       /\ admitted' = MapPut(admitted, order.order_id, order)
       /\ UNCHANGED <<clock, running, observed, mapvars, hashvars, levelvars,
                      loopvars>>

RemoveOrder(id) ==
    /\ Step
    /\ \E o \in OrderBook_remove_order(bid_side, ask_side, id) :
          /\ bid_side' = o.bid
          /\ ask_side' = o.ask
          /\ running' = ~o.crashed
          /\ last' = Call("remove", NoOrder, id, FALSE, <<>>, -1, o.ret)
          /\ cancelled' = IF o.ret = 1 THEN cancelled \cup {id} ELSE cancelled
    /\ before' = Snapshot
    /\ prior' = [call |-> last, book |-> before]
    /\ queried' = NoQuery
    /\ UNCHANGED <<executed_trades, trade_count, trade_capacity, counter, clock,
                   submitted, observed, returned, admitted, mapvars, hashvars,
                   levelvars, loopvars>>

\* OrderBook_get_all_trades(book, &trades, &trade_count): the caller keeps
\* the copy it is given
GetAllTrades ==
    /\ running
    /\ observed' = OrderBook_get_all_trades(executed_trades, trade_count)
    /\ UNCHANGED <<book, counter, clock, running, calls, submitted, last, before,
                   cancelled, prior, queried, returned, admitted, mapvars, hashvars,
                   levelvars, loopvars>>

\* a second passes
Tick ==
    /\ Step
    /\ clock' = clock + 1
    /\ UNCHANGED <<book, counter, running, submitted, last, before, observed,
                   cancelled, prior, queried, returned, admitted, mapvars, hashvars,
                   levelvars, loopvars>>

\* another OrderBook of the same process records a trade: its create_trade
\* takes the next value of the static counter
OtherBookTrade ==
    /\ running
    /\ counter - trade_count < MaxOtherTrades
    /\ counter' = counter + 1
    /\ UNCHANGED <<book, clock, running, calls, submitted, last, before, observed,
                   cancelled, prior, queried, returned, admitted, mapvars, hashvars,
                   levelvars, loopvars>>

\* the depths a caller asks for: one that fails, all levels, and counts up
\* to one more than a side can hold
Depths == (-1)..(MaxPrice + 1)

\* OrderBook_get_top_levels(book, k, ...): a query, the book is only read
GetTopLevels(k) ==
    /\ running
    /\ queried' = Query("top_levels", k, <<>>, book,
                        OrderBook_get_top_levels(bid_side, ask_side, k), <<>>)
    /\ UNCHANGED <<book, counter, clock, running, calls, submitted, last, before,
                   observed, cancelled, prior, returned, admitted, mapvars, hashvars,
                   levelvars, loopvars>>

\* the ids a caller looks up: those the counter has given out, and the next
TradeIds == {generate_trade_id(n) : n \in 0..counter}

\* OrderBook_get_trade(book, trade_id): a query, the book is only read
GetTrade(trade_id) ==
    /\ running
    /\ queried' = Query("trade", 0, trade_id, book, NoTop,
                        OrderBook_get_trade(executed_trades, trade_count,
                                            trade_id))
    /\ UNCHANGED <<book, counter, clock, running, calls, submitted, last, before,
                   observed, cancelled, prior, returned, admitted, mapvars, hashvars,
                   levelvars, loopvars>>

\* the user an order id belongs to
UserOf(id) == IF id % 2 = 1 THEN "u1" ELSE "u2"

\* the orders a caller submits: valid orders, each under a new id
NewOrders ==
    {Order(submitted + 1, UserOf(submitted + 1), qty, side, price, clock) :
        qty \in Qtys, side \in Sides, price \in Prices}

Next ==
    \/ \E order \in NewOrders : AddOrder(order, TRUE)
    \/ \E id \in 1..(submitted + 1) : RemoveOrder(id)

Spec == Init /\ [][Next]_vars

\* the book read between its calls, while time passes
NextLog ==
    \/ Next
    \/ GetAllTrades
    \/ Tick

SpecLog == Init /\ [][NextLog]_vars

\* the book beside other books of the same process
NextBooks ==
    \/ Next
    \/ OtherBookTrade

SpecBooks == Init /\ [][NextBooks]_vars

\* the book and its depth queries
NextDepth ==
    \/ Next
    \/ \E k \in Depths : GetTopLevels(k)

SpecDepth == Init /\ [][NextDepth]_vars

\* the book and its trade lookups
NextTrade ==
    \/ Next
    \/ \E trade_id \in TradeIds : GetTrade(trade_id)

SpecTrade == Init /\ [][NextTrade]_vars

\* the orders that break the rule of admission: no quantity, or no price
BadOrders ==
    {o \in {Order(submitted + 1, UserOf(submitted + 1), qty, side, price, clock) :
               qty \in 0..MaxQty, side \in Sides, price \in 0..MaxPrice} :
        o.quantity <= 0 \/ o.price <= 0}

\* the book with callers that submit such orders too
NextAdmit ==
    \/ Next
    \/ \E order \in BadOrders : AddOrder(order, TRUE)

SpecAdmit == Init /\ [][NextAdmit]_vars

\* the allocations of OrderBook_add_order that may fail: the copy of the
\* incoming order, the array of trade ids, and the growth of executed_trades
\* in add_trade_to_book
Allocations == {"incoming", "trade_ids", "executed_trades"}

\* the trade loop of OrderBook_add_order when the realloc of
\* add_trade_to_book fails: the trade is created, so the counter moves on, and
\* its id is copied out, but the trade is not stored; the log stays full, so
\* the realloc is tried, and fails, for every trade of the call
RECURSIVE RecordTradesLost(_, _, _, _, _)
RecordTradesLost(bk, incoming, filled, i, now) ==
    IF i > Len(filled) THEN bk
    ELSE LET t == create_trade(incoming, filled[i], generate_trade_id(bk.counter), now)
             bk2 == [bk EXCEPT !.counter = @ + 1]
         IN RecordTradesLost([bk2 EXCEPT !.trade_ids = Append(@, t.trade_id)],
                             incoming, filled, i + 1, now)

\* OrderBook_add_order(book, order, &trade_count) when the allocation named
\* by failed returns NULL; the caller's trade_count is 0 before the call
AddOrderNoMemory(order, failed) ==
    LET is_buy == order.side = BUY
        ex == OrderBookSide_execute_against(
                 IF is_buy THEN ask_side ELSE bid_side, order)
        incoming == ex.order
        filled_count == Len(ex.filled)
        bk == RecordTradesLost([trades |-> executed_trades, count |-> trade_count,
                                capacity |-> trade_capacity, counter |-> counter,
                                trade_ids |-> <<>>],
                               incoming, ex.filled, 1, clock)
        own == IF incoming.quantity > 0
               THEN OrderBookSide_add_order(IF is_buy THEN bid_side ELSE ask_side,
                                            incoming)
               ELSE IF is_buy THEN bid_side ELSE ask_side
    IN /\ Step
       /\ submitted' = submitted + 1
       /\ \/ /\ failed = "incoming"
             /\ UNCHANGED <<bid_side, ask_side, counter>>
             /\ last' = Call("add:incoming", order, order.order_id, TRUE, <<>>, 0, 0)
          \/ /\ failed = "trade_ids"
             /\ filled_count > 0
             /\ bid_side' = IF is_buy THEN bid_side ELSE ex.side
             /\ ask_side' = IF is_buy THEN ex.side ELSE ask_side
             /\ UNCHANGED counter
             /\ last' = Call("add:trade_ids", order, order.order_id, TRUE, <<>>, 0, 0)
          \/ /\ failed = "executed_trades"
             /\ filled_count > 0
             /\ trade_count = trade_capacity
             /\ bid_side' = IF is_buy THEN own ELSE ex.side
             /\ ask_side' = IF is_buy THEN ex.side ELSE own
             /\ counter' = bk.counter
             /\ last' = Call("add:executed_trades", order, order.order_id, TRUE,
                             bk.trade_ids, filled_count, 0)
       /\ before' = Snapshot
       /\ cancelled' = cancelled \ {order.order_id}
       /\ prior' = [call |-> last, book |-> before]
       /\ queried' = NoQuery
       /\ returned' = returned \cup {last'.ret_ids[i] : i \in 1..Len(last'.ret_ids)}
       /\ admitted' = MapPut(admitted, order.order_id, order)
       /\ UNCHANGED <<executed_trades, trade_count, trade_capacity, clock, running,
                      observed, mapvars, hashvars, levelvars,
                      loopvars>>

\* the book in a process that runs out of memory now and then
NextNoMemory ==
    \/ Next
    \/ \E order \in NewOrders, failed \in Allocations :
          AddOrderNoMemory(order, failed)

SpecNoMemory == Init /\ [][NextNoMemory]_vars

(***************************************************************************)
(* The OrderedMap on its own: a caller inserts, removes, looks up and      *)
(* walks the map with one iterator.                                         *)
(***************************************************************************)
\* the key after and before k in the sorted map, 0 when there is none
Successor(f, k) ==
    IF {x \in DOMAIN f : x > k} = {} THEN 0 ELSE SetMin({x \in DOMAIN f : x > k})

Predecessor(f, k) ==
    IF {x \in DOMAIN f : x < k} = {} THEN 0 ELSE SetMax({x \in DOMAIN f : x < k})

MapInsert(key, value) ==
    LET r == OrderedMap_insert(omap, key, value)
    IN /\ running
       /\ omap' = r.map
       /\ model' = MapPut(model, key, value)
       /\ iter' = [iter EXCEPT !.fresh = FALSE]
       /\ mapret' = MapCall("insert", key, value, r.ret, NotFound)
       /\ UNCHANGED <<bookvars, hashvars, levelvars, loopvars, running>>

MapRemove(key) ==
    LET r == OrderedMap_remove(omap, key)
    IN /\ running
       /\ omap' = r.map
       /\ model' = MapDel(model, key)
       /\ iter' = [iter EXCEPT !.fresh = FALSE,
                               !.on = IF @ = key THEN -1 ELSE @]
       /\ mapret' = MapCall("remove", key, "", r.ret, NotFound)
       /\ UNCHANGED <<bookvars, hashvars, levelvars, loopvars, running>>

\* OrderedMap_get, OrderedMap_get_min, OrderedMap_get_max, OrderedMap_size
MapGet(key) ==
    /\ running
    /\ mapret' = MapCall("get", key, "", OrderedMap_get(omap, key).ret,
                         OrderedMap_get(omap, key))
    /\ UNCHANGED <<bookvars, hashvars, levelvars, loopvars, running, omap, iter, model>>

MapGetMin ==
    /\ running
    /\ mapret' = MapCall("get_min", 0, "", AVL_get_min(omap).ret, AVL_get_min(omap))
    /\ UNCHANGED <<bookvars, hashvars, levelvars, loopvars, running, omap, iter, model>>

MapGetMax ==
    /\ running
    /\ mapret' = MapCall("get_max", 0, "", AVL_get_max(omap).ret, AVL_get_max(omap))
    /\ UNCHANGED <<bookvars, hashvars, levelvars, loopvars, running, omap, iter, model>>

MapSize ==
    /\ running
    /\ mapret' = MapCall("size", 0, "", AVL_size(omap), NotFound)
    /\ UNCHANGED <<bookvars, hashvars, levelvars, loopvars, running, omap, iter, model>>

\* OrderedMap_front and OrderedMap_back: the iterator is made anew
IterFront ==
    /\ running
    /\ iter' = [current |-> OrderedMap_front(omap),
                on |-> IF DOMAIN model = {} THEN 0 ELSE SetMin(DOMAIN model),
                fresh |-> TRUE]
    /\ mapret' = MapCall("front", 0, "", 1, NotFound)
    /\ UNCHANGED <<bookvars, hashvars, levelvars, loopvars, running, omap, model>>

IterBack ==
    /\ running
    /\ iter' = [current |-> OrderedMap_back(omap),
                on |-> IF DOMAIN model = {} THEN 0 ELSE SetMax(DOMAIN model),
                fresh |-> TRUE]
    /\ mapret' = MapCall("back", 0, "", 1, NotFound)
    /\ UNCHANGED <<bookvars, hashvars, levelvars, loopvars, running, omap, model>>

\* the iterator points to a node that was freed: to read it is undefined
Dangling == iter.current # 0 /\ ~omap.heap[iter.current].live

\* the process crashes on the read of freed memory
Crash(op) ==
    /\ Dangling
    /\ running' = FALSE
    /\ mapret' = MapCall(op, 0, "", 0, NotFound)
    /\ UNCHANGED <<bookvars, hashvars, levelvars, loopvars, omap, iter, model>>

\* OrderedMapIterator_get; a read of freed memory that does not crash finds
\* whatever the memory holds by then
IterGet ==
    /\ running
    /\ \/ Crash("iter_get")
       \/ /\ Dangling
          /\ \E key \in Keys, value \in Values :
                mapret' = MapCall("iter_get", 0, "", 1,
                                  [ret |-> 1, key |-> key, value |-> value])
          /\ UNCHANGED <<bookvars, hashvars, levelvars, loopvars, running, omap, iter, model>>
       \/ /\ ~Dangling
          /\ mapret' = MapCall("iter_get", 0, "",
                                OrderedMapIterator_get(omap, iter.current).ret,
                                OrderedMapIterator_get(omap, iter.current))
          /\ UNCHANGED <<bookvars, hashvars, levelvars, loopvars, running, omap, iter, model>>

\* the iterator moves to current and the call returns whether it is a node
Move(op, current, on) ==
    /\ iter' = [iter EXCEPT !.current = current, !.on = on]
    /\ mapret' = MapCall(op, 0, "", IF current # 0 THEN 1 ELSE 0, NotFound)
    /\ UNCHANGED <<bookvars, hashvars, levelvars, loopvars, running, omap, model>>

\* OrderedMapIterator_next; from freed memory the links lead anywhere
IterNext ==
    /\ running
    /\ \/ Crash("next")
       \/ /\ Dangling
          /\ \E current \in {0} \cup Addrs : Move("next", current, iter.on)
       \/ /\ ~Dangling
          /\ Move("next", OrderedMapIterator_next(omap, iter.current),
                  IF iter.on \in DOMAIN model THEN Successor(model, iter.on)
                  ELSE iter.on)

IterPrev ==
    /\ running
    /\ \/ Crash("prev")
       \/ /\ Dangling
          /\ \E current \in {0} \cup Addrs : Move("prev", current, iter.on)
       \/ /\ ~Dangling
          /\ Move("prev", OrderedMapIterator_prev(omap, iter.current),
                  IF iter.on \in DOMAIN model THEN Predecessor(model, iter.on)
                  ELSE iter.on)

\* the map and its lookups
NextMap ==
    \/ \E key \in Keys, value \in Values : MapInsert(key, value)
    \/ \E key \in Keys : MapRemove(key)
    \/ \E key \in Keys : MapGet(key)
    \/ MapGetMin
    \/ MapGetMax
    \/ MapSize

SpecMap == Init /\ [][NextMap]_vars

\* the map and its iterator
NextIter ==
    \/ \E key \in Keys : MapInsert(key, "v1")
    \/ \E key \in Keys : MapRemove(key)
    \/ IterFront
    \/ IterBack
    \/ IterGet
    \/ IterNext
    \/ IterPrev

SpecIter == Init /\ [][NextIter]_vars

\* the orders of a caller that does not keep its ids apart: each carries a
\* new id or the id of an order submitted before
ReusedOrders ==
    {Order(id, UserOf(id), qty, side, price, clock) :
        id \in 1..(submitted + 1), qty \in Qtys, side \in Sides, price \in Prices}

NextReuse ==
    \/ \E order \in ReusedOrders : AddOrder(order, TRUE)
    \/ \E id \in 1..(submitted + 1) : RemoveOrder(id)

SpecReuse == Init /\ [][NextReuse]_vars

\* the book of a caller that now and then passes NULL for trade_count
NextNull ==
    \/ \E order \in NewOrders, has_tc \in BOOLEAN : AddOrder(order, has_tc)
    \/ \E id \in 1..(submitted + 1) : RemoveOrder(id)

SpecNull == Init /\ [][NextNull]_vars

(***************************************************************************)
(* The queries, and a caller that writes to the trades it was handed.  A   *)
(* pointer handed out is told by whose Trade it points to: one allocated   *)
(* for the caller, or the one the log holds at an index.                   *)
(***************************************************************************)
\* a variant that hands out the pointers of the log
get_all_trades_refs_shared(count) ==
    [i \in 1..count |-> [owner |-> "book", index |-> i]]

\* (*trades)[i] of OrderBook_get_all_trades: a Trade of its own for each
\* trade of the log
get_all_trades_refs(count) ==
    [i \in 1..count |-> [owner |-> "caller", index |-> i]]

\* the pointer OrderBook_get_trade returns: a Trade of its own, <<>> for NULL
get_trade_ref(trades, count, trade_id) ==
    LET hits == {i \in 1..count : trades[i].trade_id = trade_id}
    IN  IF hits = {} THEN <<>>
        ELSE <<[owner |-> "caller", index |-> SetMin(hits)]>>

\* OrderBook_get_best_bid(book) and OrderBook_get_best_ask(book): the price
\* is kept as the value returned
GetBestBid ==
    /\ running
    /\ queried' = Query("best_bid", 0, <<>>, book,
                        [NoTop EXCEPT !.ret = OrderBook_get_best_bid(bid_side)],
                        <<>>)
    /\ UNCHANGED <<book, counter, clock, running, calls, submitted, last, before,
                   observed, cancelled, prior, returned, admitted, mapvars, hashvars,
                   levelvars, loopvars>>

GetBestAsk ==
    /\ running
    /\ queried' = Query("best_ask", 0, <<>>, book,
                        [NoTop EXCEPT !.ret = OrderBook_get_best_ask(ask_side)],
                        <<>>)
    /\ UNCHANGED <<book, counter, clock, running, calls, submitted, last, before,
                   observed, cancelled, prior, returned, admitted, mapvars, hashvars,
                   levelvars, loopvars>>

\* the caller clears the size of the i-th trade OrderBook_get_all_trades
\* gave it, as it does when it frees the trade
WriteObserved(i) ==
    LET ref == get_all_trades_refs(Len(observed))[i] IN
    /\ running
    /\ observed[i].size # 0
    /\ observed' = [observed EXCEPT ![i].size = 0]
    /\ executed_trades' = IF ref.owner = "book"
                          THEN [executed_trades EXCEPT ![ref.index].size = 0]
                          ELSE executed_trades
    /\ UNCHANGED <<bid_side, ask_side, trade_count, trade_capacity, counter,
                   clock, running, calls, submitted, last, before, cancelled,
                   prior, queried, returned, admitted, mapvars, hashvars,
                   levelvars, loopvars>>

\* the same of the trade OrderBook_get_trade gave it
WriteTrade ==
    /\ running
    /\ queried.op = "trade"
    /\ queried.trade # <<>>
    /\ queried.trade[1].size # 0
    /\ LET ref == get_trade_ref(executed_trades, trade_count, queried.id)[1] IN
       executed_trades' = IF ref.owner = "book"
                          THEN [executed_trades EXCEPT ![ref.index].size = 0]
                          ELSE executed_trades
    /\ queried' = [queried EXCEPT !.trade[1].size = 0]
    /\ UNCHANGED <<bid_side, ask_side, trade_count, trade_capacity, counter,
                   clock, running, calls, submitted, last, before, observed,
                   cancelled, prior, returned, admitted, mapvars, hashvars,
                   levelvars, loopvars>>

\* a query of the book
Queries ==
    \/ GetBestBid
    \/ GetBestAsk
    \/ \E k \in Depths : GetTopLevels(k)
    \/ GetAllTrades
    \/ \E trade_id \in TradeIds : GetTrade(trade_id)

\* a write to a trade a query returned
Writes ==
    \/ \E i \in 1..Len(observed) : WriteObserved(i)
    \/ WriteTrade

NextQuery ==
    \/ Next
    \/ Queries
    \/ Writes

SpecQuery == Init /\ [][NextQuery]_vars

(***************************************************************************)
(* The HashTable on its own: a caller adds, looks up and removes keys.     *)
(***************************************************************************)
HashAdd(key, value) ==
    LET r == HashTable_add(table, key, value) IN
    /\ running
    /\ table' = r.table
    /\ hmodel' = MapPut(hmodel, key, value)
    /\ hashret' = HashCall("add", key, value, r.ret)
    /\ UNCHANGED <<bookvars, mapvars, levelvars, loopvars, running>>

HashGet(key) ==
    /\ running
    /\ hashret' = HashCall("get", key, "", HashTable_get(table, key))
    /\ UNCHANGED <<bookvars, mapvars, levelvars, loopvars, running, table, hmodel>>

HashRemove(key) ==
    LET r == HashTable_remove(table, key) IN
    /\ running
    /\ table' = r.table
    /\ hmodel' = MapDel(hmodel, key)
    /\ hashret' = HashCall("remove", key, "", r.ret)
    /\ UNCHANGED <<bookvars, mapvars, levelvars, loopvars, running>>

NextHash ==
    \/ \E key \in HashKeys, value \in Values : HashAdd(key, value)
    \/ \E key \in HashKeys : HashGet(key)
    \/ \E key \in HashKeys : HashRemove(key)

SpecHash == Init /\ [][NextHash]_vars

(***************************************************************************)
(* The OrderBookLevel on its own: a caller adds orders, pops the head and  *)
(* deletes by id.  Two orders of a level may carry the same id.            *)
(***************************************************************************)
LevelIds == 1..2

LevelOrders == {Order(id, "u", qty, BUY, 1, 0) : id \in LevelIds, qty \in Qtys}

LevelAdd(order) ==
    /\ running
    /\ \E a \in ListAddrs : ~olevel.nodes[a].live
    /\ olevel' = List_add_order(olevel, order)
    /\ fifo' = Append(fifo, order)
    /\ levelret' = LevelCall("add", order, 1)
    /\ UNCHANGED <<bookvars, mapvars, hashvars, loopvars, running>>

LevelRemove ==
    LET r == List_remove_order(olevel) IN
    /\ running
    /\ olevel' = r.level
    /\ fifo' = IF fifo = <<>> THEN fifo ELSE Tail(fifo)
    /\ levelret' = LevelCall("remove", r.order, r.ret)
    /\ UNCHANGED <<bookvars, mapvars, hashvars, loopvars, running>>

LevelDelete(id) ==
    LET r == List_delete_order_by_id(olevel, id)
        i == FirstIndex(fifo, id, 1)
    IN  /\ running
        /\ olevel' = r.level
        /\ fifo' = IF i = 0 THEN fifo ELSE RemoveAt(fifo, i)
        /\ levelret' = LevelCall("delete", [NoOrder EXCEPT !.order_id = id],
                                 r.ret)
        /\ UNCHANGED <<bookvars, mapvars, hashvars, loopvars, running>>

NextLevel ==
    \/ \E order \in LevelOrders : LevelAdd(order)
    \/ LevelRemove
    \/ \E id \in LevelIds : LevelDelete(id)

SpecLevel == Init /\ [][NextLevel]_vars

(***************************************************************************)
(* OrderBookSide_execute_against one iteration at a time, as               *)
(* OrderBook_add_order calls it on the side opposite to the order, from    *)
(* the book as it is.  The run works on the state of the call only; the    *)
(* call as a whole is AddOrder.                                            *)
(***************************************************************************)
ExecBegin(order) ==
    LET side == IF order.side = BUY THEN ask_side ELSE bid_side
        st == [side |-> side, order |-> order, filled |-> <<>>]
    IN  /\ running
        /\ exec.pc = "idle"
        /\ exec' = [pc |-> "outer", st |-> st, price |-> 0, given |-> order,
                    start |-> side, outer0 |-> st, inner0 |-> st,
                    step |-> "begin"]
        /\ UNCHANGED <<bookvars, mapvars, hashvars, levelvars, running>>

\* the test of the outer loop, the best level and the test of its price
ExecOuter ==
    /\ exec.pc = "outer"
    /\ IF exec.st.order.quantity > 0 /\ OrderedMap_size(exec.st.side.levels) > 0
       THEN LET price == BestPrice(exec.st.side) IN
            IF ~compare_prices(price, exec.st.order.price, exec.st.side.is_buy_side)
            THEN exec' = [exec EXCEPT !.pc = "done", !.step = "break"]
            ELSE exec' = [exec EXCEPT !.pc = "inner", !.price = price,
                                      !.outer0 = exec.st, !.step = "outer"]
       ELSE exec' = [exec EXCEPT !.pc = "done", !.step = "exit"]
    /\ UNCHANGED <<bookvars, mapvars, hashvars, levelvars, running>>

\* the test of the inner loop and, if it holds, one pass of its body
ExecInner ==
    /\ exec.pc = "inner"
    /\ IF /\ exec.st.order.quantity > 0
          /\ ~OrderBookLevel_is_empty(exec.st.side.levels[exec.price])
       THEN exec' = [exec EXCEPT !.st = FillHead(exec.st, exec.price),
                                 !.inner0 = exec.st, !.step = "fill"]
       ELSE exec' = [exec EXCEPT !.pc = "evict", !.step = "inner"]
    /\ UNCHANGED <<bookvars, mapvars, hashvars, levelvars, running>>

\* a variant that leaves an empty level in the map
ExecEvict_keep ==
    /\ exec.pc = "evict"
    /\ exec' = [exec EXCEPT !.pc = "outer", !.step = "evict"]
    /\ UNCHANGED <<bookvars, mapvars, hashvars, levelvars, running>>

\* the eviction of the level if it is empty: the end of a pass of the outer
\* loop
ExecEvict ==
    /\ exec.pc = "evict"
    /\ IF OrderBookLevel_is_empty(exec.st.side.levels[exec.price])
       THEN exec' = [exec EXCEPT !.st.side = FreeLevel(@, exec.price),
                                 !.pc = "outer", !.step = "evict"]
       ELSE exec' = [exec EXCEPT !.pc = "outer", !.step = "evict"]
    /\ UNCHANGED <<bookvars, mapvars, hashvars, levelvars, running>>

\* the return
ExecEnd ==
    /\ exec.pc = "done"
    /\ exec' = NoExec
    /\ UNCHANGED <<bookvars, mapvars, hashvars, levelvars, running>>

ExecSteps == ExecOuter \/ ExecInner \/ ExecEvict

NextLoop ==
    \/ exec.pc = "idle" /\ \E order \in NewOrders : AddOrder(order, TRUE)
    \/ exec.pc = "idle" /\ \E id \in 1..(submitted + 1) : RemoveOrder(id)
    \/ \E order \in NewOrders : ExecBegin(order)
    \/ ExecSteps
    \/ ExecEnd

\* a call that has begun goes on: the process runs it to its return
SpecLoop == Init /\ [][NextLoop]_vars /\ WF_vars(ExecSteps)

(***************************************************************************)
(* What the properties below talk about.  An order's id is its rank among  *)
(* the orders submitted: of two orders the one of the smaller id was       *)
(* admitted earlier.                                                       *)
(***************************************************************************)
\* the last call was OrderBook_add_order
LastAdd == last.op = "add"

\* the order it was given
Incoming == last.order

IncomingIsBuy == Incoming.side = BUY

\* the side the incoming order executed against, before and after the call
ConsumedBefore == IF IncomingIsBuy THEN before.ask_side ELSE before.bid_side

ConsumedAfter == IF IncomingIsBuy THEN ask_side ELSE bid_side

\* the side of the incoming order, before and after the call
OwnBefore == IF IncomingIsBuy THEN before.bid_side ELSE before.ask_side

OwnAfter == IF IncomingIsBuy THEN bid_side ELSE ask_side

\* the trades the last call appended to the log
NewTrades == SubSeq(executed_trades, before.trade_count + 1, Len(executed_trades))

\* the resting order a trade of the last call was made against
Counterparty(t) == IF IncomingIsBuy THEN t.sell_order_id ELSE t.buy_order_id

\* the orders resting on a side
RestingOrders(side) ==
    UNION {{side.levels[p].q[i] : i \in 1..Len(side.levels[p].q)} :
             p \in DOMAIN side.levels}

\* the ids of the orders resting on a side
RestingIds(side) == {o.order_id : o \in RestingOrders(side)}

\* the quantity resting under an id on a side
RECURSIVE SumOver(_, _)
SumOver(f, S) ==
    IF S = {} THEN 0
    ELSE LET x == CHOOSE y \in S : TRUE IN f[x] + SumOver(f, S \ {x})

RestingQty(side, id) ==
    LET ps == DOMAIN side.levels
        atPrice == [p \in ps |->
                      LET q == side.levels[p].q
                          hits == {i \in 1..Len(q) : q[i].order_id = id}
                      IN SumOver([i \in hits |-> q[i].quantity], hits)]
    IN SumOver(atPrice, ps)

\* the sizes of the first k trades of the last call, added up
TradedUpTo(k) == SumOver([j \in 1..k |-> NewTrades[j].size], 1..k)

\* price p1 is strictly more competitive than p2 on a side
MoreCompetitive(is_buy_side, p1, p2) == IF is_buy_side THEN p1 > p2 ELSE p1 < p2

\* a resting price that an incoming limit crosses
Crosses(resting, limit) == IF IncomingIsBuy THEN resting <= limit ELSE resting >= limit

\* the order o, resting when the call began, still has quantity left when
\* the k-th trade of the call is made: a trade from the k-th on is made
\* against it, or it still rests when the call returns
OpenAt(k, o) ==
    \/ o.order_id \in RestingIds(ConsumedAfter)
    \/ \E j \in k..Len(NewTrades) : Counterparty(NewTrades[j]) = o.order_id

Lesser(x, y) == IF x <= y THEN x ELSE y

Greater(x, y) == IF x >= y THEN x ELSE y

\* C1: time priority within a price level.  No trade of a submit is made
\* against a resting order while an order admitted earlier at the same price
\* on the same side still has quantity left, and a resting order that a trade
\* filled in part is still the head of the queue of its level.
C1_TimePriority ==
    LastAdd =>
      /\ \A k \in 1..Len(NewTrades) :
           \A o \in RestingOrders(ConsumedBefore) :
              (/\ o.price = NewTrades[k].price
               /\ o.order_id < Counterparty(NewTrades[k]))
              => ~OpenAt(k + 1, o) /\ o.order_id \notin RestingIds(ConsumedAfter)
      /\ \A k \in 1..Len(NewTrades) :
           Counterparty(NewTrades[k]) \in RestingIds(ConsumedAfter)
           => /\ NewTrades[k].price \in DOMAIN ConsumedAfter.levels
              /\ Head(ConsumedAfter.levels[NewTrades[k].price].q).order_id
                   = Counterparty(NewTrades[k])

\* a submit filled the head of a queue of two in full and the order behind
\* it in part
C1_Witness ==
    /\ LastAdd
    /\ Len(NewTrades) = 2
    /\ NewTrades[1].price = NewTrades[2].price
    /\ Counterparty(NewTrades[1]) < Counterparty(NewTrades[2])
    /\ Counterparty(NewTrades[2]) \in RestingIds(ConsumedAfter)

\* C2: price priority across levels.  No trade of a submit is made at a price
\* while an order with quantity left rests on the consumed side at a strictly
\* more competitive price, and the prices of the trades of one submit never
\* get more competitive (asks ascending, bids descending).
C2_PricePriority ==
    LastAdd =>
      /\ \A k \in 1..Len(NewTrades) :
           \A o \in RestingOrders(ConsumedBefore) :
              MoreCompetitive(ConsumedBefore.is_buy_side, o.price, NewTrades[k].price)
              => ~OpenAt(k, o)
      /\ \A k \in 1..(Len(NewTrades) - 1) :
           ~MoreCompetitive(ConsumedBefore.is_buy_side,
                            NewTrades[k + 1].price, NewTrades[k].price)

\* a submit traded at two prices
C2_Witness ==
    /\ LastAdd
    /\ Len(NewTrades) = 2
    /\ NewTrades[1].price # NewTrades[2].price

\* C3: the cross predicate.  Every trade pairs the incoming order with an
\* order that rested on the opposite side at a price the incoming limit
\* crosses, equality included: no trade is made beyond the limit, and the
\* incoming order is left with quantity only when no order rests on the
\* opposite side at a price its limit crosses.
C3_CrossPredicate ==
    LastAdd =>
      /\ \A k \in 1..Len(NewTrades) :
           /\ Crosses(NewTrades[k].price, Incoming.price)
           /\ \E o \in RestingOrders(ConsumedBefore) :
                 /\ o.order_id = Counterparty(NewTrades[k])
                 /\ o.price = NewTrades[k].price
      /\ Incoming.order_id \in RestingIds(OwnAfter)
         => \A o \in RestingOrders(ConsumedAfter) : ~Crosses(o.price, Incoming.price)

\* a trade at a resting price equal to the incoming limit
C3_Witness ==
    /\ LastAdd
    /\ \E k \in 1..Len(NewTrades) : NewTrades[k].price = Incoming.price

\* C4: every trade's price is the limit price of the resting order it was
\* made against.
C4_TradePrice ==
    LastAdd =>
      \A k \in 1..Len(NewTrades) :
         \A o \in RestingOrders(ConsumedBefore) :
            o.order_id = Counterparty(NewTrades[k]) => NewTrades[k].price = o.price

\* an incoming sell traded above its limit with a buy order that had itself
\* traded below its own limit when it came in
C4_Witness ==
    /\ LastAdd
    /\ ~IncomingIsBuy
    /\ \E k \in 1..Len(NewTrades), i \in 1..before.trade_count :
          /\ NewTrades[k].price > Incoming.price
          /\ executed_trades[i].buy_order_id = NewTrades[k].buy_order_id
          /\ executed_trades[i].price < NewTrades[k].price

\* C5: the sizes of the trades of a submit and the quantity left resting
\* under the order's id add up to the order's quantity; what is left rests on
\* the order's own side at its limit price, and nothing of a fully filled
\* order rests.
C5_Remainder ==
    LastAdd /\ Incoming.quantity > 0 =>
      LET rem == Incoming.quantity - TradedUpTo(Len(NewTrades)) IN
      /\ rem >= 0
      /\ RestingQty(OwnAfter, Incoming.order_id) = rem
      /\ RestingQty(ConsumedAfter, Incoming.order_id) = 0
      /\ Incoming.order_id \notin RestingIds(ConsumedAfter)
      /\ rem > 0 <=> Incoming.order_id \in RestingIds(OwnAfter)
      /\ rem > 0 =>
           /\ Incoming.price \in DOMAIN OwnAfter.levels
           /\ [Incoming EXCEPT !.quantity = rem]
                \in RestingOrders([OwnAfter EXCEPT !.levels =
                       [p \in {Incoming.price} |-> OwnAfter.levels[p]]])
      /\ rem = 0 => OwnAfter = OwnBefore

\* a submit traded and rested what was left
C5_Witness ==
    /\ LastAdd
    /\ Len(NewTrades) > 0
    /\ Incoming.order_id \in RestingIds(OwnAfter)

\* C6: the size of every trade is the lesser of what the resting order and
\* the incoming order have left when the trade is made, it is strictly
\* positive, and both orders are reduced by exactly that size.
C6_TradeSize ==
    LastAdd =>
      \A k \in 1..Len(NewTrades) :
         \E o \in RestingOrders(ConsumedBefore) :
            /\ o.order_id = Counterparty(NewTrades[k])
            /\ NewTrades[k].size
                 = Lesser(o.quantity, Incoming.quantity - TradedUpTo(k - 1))
            /\ NewTrades[k].size > 0
            /\ RestingQty(ConsumedAfter, o.order_id) = o.quantity - NewTrades[k].size
            /\ o.order_id \in RestingIds(ConsumedAfter)
                 <=> o.quantity > NewTrades[k].size
            /\ Incoming.quantity - TradedUpTo(k) >= 0
            /\ k = Len(NewTrades)
                 => RestingQty(OwnAfter, Incoming.order_id)
                      = Incoming.quantity - TradedUpTo(k)

\* a submit made a trade of the whole of a resting order and then a trade of
\* a part of the next
C6_Witness ==
    /\ LastAdd
    /\ Len(NewTrades) = 2
    /\ Counterparty(NewTrades[1]) \notin RestingIds(ConsumedAfter)
    /\ Counterparty(NewTrades[2]) \in RestingIds(ConsumedAfter)
    /\ Incoming.order_id \notin RestingIds(OwnAfter)

\* C7: a trade's buy_order_id and buy_user_id are those of the BUY order and
\* its sell_order_id and sell_user_id those of the SELL order, whichever of
\* the two came in.
C7_TradeParties ==
    LastAdd =>
      \A k \in 1..Len(NewTrades) :
         \E o \in RestingOrders(ConsumedBefore) :
            LET t == NewTrades[k]
                buy == IF IncomingIsBuy THEN Incoming ELSE o
                sell == IF IncomingIsBuy THEN o ELSE Incoming
            IN /\ buy.side = BUY
               /\ sell.side = SELL
               /\ t.buy_order_id = buy.order_id
               /\ t.buy_user_id = buy.user_id
               /\ t.sell_order_id = sell.order_id
               /\ t.sell_user_id = sell.user_id

\* an incoming sell traded with a resting buy of another user
C7_Witness ==
    /\ LastAdd
    /\ ~IncomingIsBuy
    /\ \E k \in 1..Len(NewTrades) :
          /\ NewTrades[k].sell_order_id = Incoming.order_id
          /\ NewTrades[k].buy_user_id # NewTrades[k].sell_user_id

\* the order that came in, of the two orders of a trade
Aggressor(t) == Greater(t.buy_order_id, t.sell_order_id)

\* C8: a submit given a trade_count output returns the ids of exactly the
\* trades it appended to the log, in the order of the log, and sets
\* trade_count to their number; the log holds the trades of the submits in
\* the order the submits arrived.
C8_ReturnedTrades ==
    /\ (LastAdd /\ last.has_tc) =>
         /\ last.tc = Len(executed_trades) - Len(before.executed_trades)
         /\ last.tc = trade_count - before.trade_count
         /\ Len(last.ret_ids) = last.tc
         /\ \A k \in 1..last.tc :
               /\ last.ret_ids[k] = executed_trades[before.trade_count + k].trade_id
               /\ Aggressor(executed_trades[before.trade_count + k]) = Incoming.order_id
         /\ SubSeq(executed_trades, 1, before.trade_count) = before.executed_trades
         /\ \A i \in 1..before.trade_count :
               Aggressor(executed_trades[i]) < Incoming.order_id
    /\ \A i, j \in 1..Len(executed_trades) :
          i < j => Aggressor(executed_trades[i]) <= Aggressor(executed_trades[j])

\* a submit returned the ids of two trades
C8_Witness ==
    /\ LastAdd
    /\ last.has_tc
    /\ last.tc = 2
    /\ Len(last.ret_ids) = 2
    /\ last.ret_ids[1] # last.ret_ids[2]

\* s is an initial part of t
IsPrefix(s, t) == Len(s) <= Len(t) /\ SubSeq(t, 1, Len(s)) = s

\* C9: the trade log is append-only.  The trades a caller was given stay the
\* trades at their indices, the number of trades never goes down, and a
\* cancel leaves the log as it was.
C9_AppendOnly ==
    /\ IsPrefix(observed, OrderBook_get_all_trades(executed_trades, trade_count))
    /\ IsPrefix(before.executed_trades, executed_trades)
    /\ trade_count >= before.trade_count
    /\ trade_count >= Len(observed)
    /\ last.op = "remove" =>
         /\ executed_trades = before.executed_trades
         /\ trade_count = before.trade_count

\* trades were read from the log and a later submit added a trade
C9_Witness ==
    /\ observed # <<>>
    /\ trade_count > Len(observed)
    /\ LastAdd
    /\ Len(NewTrades) > 0

\* the number a trade id was written from
RECURSIVE DigitsValue(_)
DigitsValue(ds) ==
    IF ds = <<>> THEN 0 ELSE DigitsValue(SubSeq(ds, 1, Len(ds) - 1)) * 10 + ds[Len(ds)]

SeqNum(trade_id) == DigitsValue(Tail(trade_id))

\* C10: the trade ids of a book's log are pairwise distinct and their
\* sequence numbers go strictly up along the log, also when other books of
\* the process take ids from the counter in between.
C10_TradeIds ==
    \A i, j \in 1..Len(executed_trades) :
       i < j =>
         /\ executed_trades[i].trade_id # executed_trades[j].trade_id
         /\ SeqNum(executed_trades[i].trade_id) < SeqNum(executed_trades[j].trade_id)
         /\ Head(executed_trades[i].trade_id) = "TRADE-"
         /\ Len(executed_trades[i].trade_id) = TradeIdWidth + 1

\* two trades next to each other in the log, and another book took an id
\* between them
C10_Witness ==
    \E i \in 1..(Len(executed_trades) - 1) :
       SeqNum(executed_trades[i + 1].trade_id) > SeqNum(executed_trades[i].trade_id) + 1

\* the queue a side holds at a price, empty when it has no level there
QueueAt(side, p) == IF p \in DOMAIN side.levels THEN side.levels[p].q ELSE <<>>

\* a queue with the orders of an id taken out, the others in their order
Without(q, id) ==
    LET Keep(o) == o.order_id # id IN SelectSeq(q, Keep)

\* the prices either side has or had a level at
LevelPrices ==
    DOMAIN bid_side.levels \cup DOMAIN ask_side.levels
      \cup DOMAIN before.bid_side.levels \cup DOMAIN before.ask_side.levels

\* the last call was OrderBook_remove_order
LastRemove == last.op = "remove"

\* the id rested on a side when the last call began
RestingBefore(id) ==
    id \in RestingIds(before.bid_side) \cup RestingIds(before.ask_side)

\* C11: OrderBook_remove_order on the id of a resting order returns 1 and
\* takes exactly that order out of its queue: every other resting order keeps
\* its quantity and its place.  A second remove of the same id right after
\* returns 0 and changes nothing.
C11_CancelResting ==
    /\ (LastRemove /\ RestingBefore(last.id)) =>
         /\ running
         /\ last.ret = 1
         /\ \A p \in LevelPrices :
               /\ QueueAt(bid_side, p) = Without(QueueAt(before.bid_side, p), last.id)
               /\ QueueAt(ask_side, p) = Without(QueueAt(before.ask_side, p), last.id)
         /\ Cardinality(RestingOrders(bid_side) \cup RestingOrders(ask_side)) + 1
              = Cardinality(RestingOrders(before.bid_side)
                              \cup RestingOrders(before.ask_side))
         /\ \A o \in OrderBook_remove_order(bid_side, ask_side, last.id) :
               /\ o.ret = 0
               /\ ~o.crashed
               /\ o.bid = bid_side
               /\ o.ask = ask_side
    /\ (/\ LastRemove
        /\ prior.call.op = "remove"
        /\ prior.call.id = last.id
        /\ prior.call.ret = 1) =>
         /\ running
         /\ last.ret = 0
         /\ bid_side = before.bid_side
         /\ ask_side = before.ask_side

\* the second of two orders at a price was cancelled and the first is left
C11_Witness ==
    /\ LastRemove
    /\ last.ret = 1
    /\ \E p \in LevelPrices :
          \/ /\ Len(QueueAt(before.ask_side, p)) = 2
             /\ QueueAt(before.ask_side, p)[2].order_id = last.id
             /\ QueueAt(ask_side, p) = <<QueueAt(before.ask_side, p)[1]>>
          \/ /\ Len(QueueAt(before.bid_side, p)) = 2
             /\ QueueAt(before.bid_side, p)[2].order_id = last.id
             /\ QueueAt(bid_side, p) = <<QueueAt(before.bid_side, p)[1]>>

\* C12: OrderBook_remove_order on an id that rests on neither side (never
\* admitted, cancelled already, or filled in full) returns 0 and leaves the
\* levels, queues and id indexes of both sides and the trade log as they were.
C12_CancelUnknown ==
    (LastRemove /\ ~RestingBefore(last.id)) =>
      /\ running
      /\ last.ret = 0
      /\ bid_side = before.bid_side
      /\ ask_side = before.ask_side
      /\ executed_trades = before.executed_trades
      /\ trade_count = before.trade_count

\* a side with only the levels that hold an order: what is left of it when
\* the orders cancelled so far are taken never to have rested
Scrub(side) ==
    LET held == {p \in DOMAIN side.levels : side.levels[p].q # <<>>}
    IN [side EXCEPT !.levels = [p \in held |-> side.levels[p]]]

\* the resting order, price and size of each fill of a list of filled orders
Fills(filled) ==
    [k \in 1..Len(filled) |->
       [order_id |-> filled[k].order_id, price |-> filled[k].price,
        size |-> filled[k].quantity]]

\* the same of the trades of the last call
TradeFills ==
    [k \in 1..Len(NewTrades) |->
       [order_id |-> Counterparty(NewTrades[k]), price |-> NewTrades[k].price,
        size |-> NewTrades[k].size]]

\* C13: once OrderBook_remove_order has returned 1 for an id, no trade of a
\* later submit names the id as its buy or its sell order, and a later submit
\* makes the trades and leaves the queues it would have made and left had the
\* cancelled orders never rested.
C13_AfterCancel ==
    LastAdd =>
      /\ \A k \in 1..Len(NewTrades) :
            /\ NewTrades[k].buy_order_id \notin cancelled
            /\ NewTrades[k].sell_order_id \notin cancelled
      /\ LET r == OrderBookSide_execute_against(Scrub(ConsumedBefore), Incoming)
         IN /\ TradeFills = Fills(r.filled)
            /\ \A p \in LevelPrices : QueueAt(ConsumedAfter, p) = QueueAt(r.side, p)
            /\ RestingQty(OwnAfter, Incoming.order_id) = r.order.quantity

\* a submit at a price that crosses the price of a cancelled order, the only
\* order that rested there: no trade is made and the submit rests
C13_Witness ==
    /\ LastAdd
    /\ cancelled # {}
    /\ \E p \in DOMAIN ConsumedBefore.levels :
          /\ ConsumedBefore.levels[p].q = <<>>
          /\ Crosses(p, Incoming.price)
    /\ NewTrades = <<>>
    /\ Incoming.order_id \in RestingIds(OwnAfter)

\* C14: after every submit and every cancel, every price in the OrderedMap of
\* a side has an order in its queue: the cancel of the last order at a price
\* takes the price out of the OrderedMap, as a fill that empties a level does.
C14_NoEmptyLevel ==
    /\ \A p \in DOMAIN bid_side.levels : ~OrderBookLevel_is_empty(bid_side.levels[p])
    /\ \A p \in DOMAIN ask_side.levels : ~OrderBookLevel_is_empty(ask_side.levels[p])

\* the prices of the orders resting on a side
RestingPrices(side) == {o.price : o \in RestingOrders(side)}

\* C15: OrderBook_get_best_bid returns the highest price of the orders resting
\* on the bid side and OrderBook_get_best_ask the lowest price of the orders
\* resting on the ask side; each returns 0 exactly when no order rests on its
\* side.
C15_BestPrices ==
    /\ OrderBook_get_best_bid(bid_side) =
         IF RestingPrices(bid_side) = {} THEN 0
         ELSE CHOOSE p \in RestingPrices(bid_side) :
                 \A x \in RestingPrices(bid_side) : x <= p
    /\ OrderBook_get_best_ask(ask_side) =
         IF RestingPrices(ask_side) = {} THEN 0
         ELSE CHOOSE p \in RestingPrices(ask_side) :
                 \A x \in RestingPrices(ask_side) : x >= p

\* the last two calls were the submit of an order that made no trade, and so
\* rested in full, and the cancel of that order
AdmitThenCancel ==
    /\ LastRemove
    /\ prior.call.op = "add"
    /\ prior.call.id = last.id
    /\ before.trade_count = prior.book.trade_count

\* the total quantity of each level of a side, by price
LevelSizes(side) == [p \in DOMAIN side.levels |-> side.levels[p].total_quantity]

\* C16: the submit of an order that does not cross and its cancel right
\* after leave the book as it was before the submit: the same price levels on
\* each side, the same id indexes, the same best bid and best ask, the same
\* sizes by level and the same trade log.
C16_RoundTrip ==
    AdmitThenCancel =>
      /\ running
      /\ last.ret = 1
      /\ DOMAIN bid_side.levels = DOMAIN prior.book.bid_side.levels
      /\ DOMAIN ask_side.levels = DOMAIN prior.book.ask_side.levels
      /\ bid_side.order_lookup = prior.book.bid_side.order_lookup
      /\ ask_side.order_lookup = prior.book.ask_side.order_lookup
      /\ OrderBook_get_best_bid(bid_side) = OrderBook_get_best_bid(prior.book.bid_side)
      /\ OrderBook_get_best_ask(ask_side) = OrderBook_get_best_ask(prior.book.ask_side)
      /\ LevelSizes(bid_side) = LevelSizes(prior.book.bid_side)
      /\ LevelSizes(ask_side) = LevelSizes(prior.book.ask_side)
      /\ executed_trades = prior.book.executed_trades
      /\ trade_count = prior.book.trade_count

\* the number of orders in the queues of a side
QueuedCount(side) ==
    SumOver([p \in DOMAIN side.levels |-> Len(side.levels[p].q)], DOMAIN side.levels)

\* the id index of a side has an entry for each queued order and no other,
\* and each entry refers to a level of the side that holds the id once
IndexMatchesQueues(side) ==
    /\ HashTable_size(side.order_lookup) = QueuedCount(side)
    /\ \A id \in DOMAIN side.order_lookup :
          LET ptr == side.order_lookup[id] IN
          /\ ptr.live
          /\ ptr.price \in DOMAIN side.levels
          /\ Cardinality({i \in 1..Len(side.levels[ptr.price].q) :
                            side.levels[ptr.price].q[i].order_id = id}) = 1

\* C17: after every submit and every cancel, the HashTable of a side has as
\* many entries as the queues of the side's levels have orders, and every id
\* in it refers to a level whose queue holds exactly one order of that id; an
\* order filled in full has no entry any more.
C17_IndexMatchesQueues ==
    /\ IndexMatchesQueues(bid_side)
    /\ IndexMatchesQueues(ask_side)

\* every order resting on the side is found through the id index, in the
\* level the OrderedMap stores under the order's price
Indexed(side) ==
    \A o \in RestingOrders(side) :
       /\ o.order_id \in DOMAIN side.order_lookup
       /\ side.order_lookup[o.order_id] = LivePtr(o.price)
       /\ o.price \in DOMAIN side.levels
       /\ \E i \in 1..Len(side.levels[o.price].q) : side.levels[o.price].q[i] = o
       /\ OrderBookSide_get_order_by_id(side, o.order_id)
            = {[ret |-> 1, order |-> o, crashed |-> FALSE]}

\* C18: with no id reused while it rests, after every submit and cancel each
\* resting order is reachable through the id index of its side: the entry of
\* its id refers to the level stored under its price, and the queue of that
\* level holds the order.
C18_RestingIndexed ==
    /\ Indexed(bid_side)
    /\ Indexed(ask_side)

\* an order rests on a side at a price where an earlier level was emptied by
\* a fill and destroyed
C18_Witness ==
    \E side \in {bid_side, ask_side} :
       \E o \in RestingOrders(side) :
          \E id \in DOMAIN side.order_lookup :
             /\ ~side.order_lookup[id].live
             /\ \E i \in 1..Len(executed_trades) :
                   /\ id \in {executed_trades[i].buy_order_id,
                              executed_trades[i].sell_order_id}
                   /\ executed_trades[i].price = o.price

\* C19: no entry of an id index refers to a destroyed level: when a fill
\* empties a level and the level is destroyed, the index holds no entry that
\* points to it, and no later cancel or lookup by id reads a destroyed level.
C19_NoDanglingEntry ==
    /\ \A id \in DOMAIN bid_side.order_lookup : bid_side.order_lookup[id].live
    /\ \A id \in DOMAIN ask_side.order_lookup : ask_side.order_lookup[id].live
    /\ running

\* the total quantity of every level of the side is the sum over its queue,
\* and is the size reported for the level's price
TotalsRight(side) ==
    \A p \in DOMAIN side.levels :
       LET q == side.levels[p].q
           sum == SumOver([i \in 1..Len(q) |-> q[i].quantity], 1..Len(q))
       IN /\ OrderBookLevel_get_total_quantity(side.levels[p]) = sum
          /\ OrderBookLevelView(p, side.levels[p]) = [price |-> p, size |-> sum]

\* C20: after every operation on a level (add, pop of the head, delete by
\* id, fill of the head in part), the level's total_quantity is the sum of the
\* quantities of the orders in its queue, and is the size that depth reports.
C20_TotalQuantity ==
    /\ TotalsRight(bid_side)
    /\ TotalsRight(ask_side)

\* the head of a queue of two was filled in part
C20_Witness ==
    /\ LastAdd
    /\ Len(NewTrades) = 1
    /\ \E p \in DOMAIN ConsumedAfter.levels :
          /\ Len(ConsumedAfter.levels[p].q) = 2
          /\ Head(ConsumedAfter.levels[p].q).order_id = Counterparty(NewTrades[1])
          /\ Head(ConsumedAfter.levels[p].q).quantity
               < Head(ConsumedBefore.levels[p].q).quantity

(***************************************************************************)
(* Depth queries.                                                          *)
(***************************************************************************)
\* the last call was OrderBook_get_top_levels, and it succeeded
TopQuery == queried.op = "top_levels" /\ queried.top.ret = 1

\* the prices that are keys of a side's OrderedMap
MapPrices(side) == DOMAIN side.levels

\* the number of prices of a side that are more competitive than p
Ahead(side, p) ==
    Cardinality({x \in MapPrices(side) :
                    IF side.is_buy_side THEN x > p ELSE x < p})

\* the first m entries are the m most competitive levels of the side, the
\* best first
MostCompetitive(side, levels, m) ==
    /\ Len(levels) >= m
    /\ \A j \in 1..m :
          /\ levels[j].price \in MapPrices(side)
          /\ Ahead(side, levels[j].price) = j - 1

CountRight(side, levels, count, k) ==
    /\ count = Len(levels)
    /\ k >= 1 => count = Min2(k, Cardinality(MapPrices(side)))
    /\ count <= Cardinality(MapPrices(side))

\* C22: the level count OrderBook_get_top_levels reports for a side is the
\* number of levels it returned: min(k, n) for k >= 1 on a side of n levels,
\* and never more than the number of price levels of the side.
C22_LevelCount ==
    TopQuery =>
       /\ CountRight(bid_side, queried.top.bid_levels, queried.top.bid_count,
                     queried.k)
       /\ CountRight(ask_side, queried.top.ask_levels, queried.top.ask_count,
                     queried.k)

\* every key of the side is reported once, the most competitive first
AllLevels(side, levels, count) ==
    /\ count = Cardinality(MapPrices(side))
    /\ Len(levels) = count
    /\ MostCompetitive(side, levels, count)
    /\ {levels[j].price : j \in 1..Len(levels)} = MapPrices(side)

TradeQuery == queried.op = "trade"

\* the entries of the log that carry this id
LogEntries(trade_id) ==
    {i \in 1..trade_count : executed_trades[i].trade_id = trade_id}

\* C24: for every trade id OrderBook_add_order has ever returned on the book,
\* OrderBook_get_trade returns a trade whose fields equal the log entry that
\* carries the id; for an id that is not in the log it returns NULL; in both
\* cases the book is as the call found it.
C24_TradeLookup ==
    TradeQuery =>
       /\ queried.id \in returned =>
             /\ Cardinality(LogEntries(queried.id)) = 1
             /\ \A i \in LogEntries(queried.id) :
                   queried.trade = <<executed_trades[i]>>
       /\ LogEntries(queried.id) = {} => queried.trade = <<>>
       /\ book = queried.found

\* the id of the second trade of the log is looked up
C24_Witness ==
    /\ TradeQuery
    /\ queried.id \in returned
    /\ trade_count = 2
    /\ queried.trade = <<executed_trades[2]>>
    /\ executed_trades[1] # executed_trades[2]

(***************************************************************************)
(* Admission.                                                              *)
(***************************************************************************)
\* the order breaks the rule of admission
Malformed(order) == order.quantity <= 0 \/ order.price <= 0

\* C25: a submit of an order with quantity <= 0 or price <= 0 produces no
\* trades, rests nothing, and leaves both sides and the trade log as they
\* were.
C25_Rejected ==
    (LastAdd /\ Malformed(Incoming)) =>
       /\ last.tc = 0
       /\ last.ret_ids = <<>>
       /\ bid_side = before.bid_side
       /\ ask_side = before.ask_side
       /\ executed_trades = before.executed_trades
       /\ trade_count = before.trade_count

(***************************************************************************)
(* Allocation failure.                                                     *)
(***************************************************************************)
\* the last call was an OrderBook_add_order in which an allocation failed
LastAddNoMemory ==
    last.op \in {"add:incoming", "add:trade_ids", "add:executed_trades"}

\* the quantity resting on a side
SideQty(side) ==
    SumOver([p \in DOMAIN side.levels |-> SumQty(side.levels[p].q)],
            DOMAIN side.levels)

\* C26: when an allocation fails during OrderBook_add_order, the call returns
\* an empty trade list and leaves no partial state: the quantity the call
\* removed from resting orders is the quantity of the trades it logged, every
\* trade id it returned is in the log, and the totals of the levels are right.
C26_NoPartialState ==
    LastAddNoMemory =>
       /\ last.ret_ids = <<>>
       /\ SideQty(ConsumedBefore) - SideQty(ConsumedAfter)
            = TradedUpTo(Len(NewTrades))
       /\ \A i \in 1..Len(last.ret_ids) : LogEntries(last.ret_ids[i]) # {}
       /\ TotalsRight(bid_side)
       /\ TotalsRight(ask_side)

(***************************************************************************)
(* The OrderedMap against the sorted finite map it stands for.             *)
(***************************************************************************)
\* what a lookup of key k gives on the sorted finite map f
Lookup(f, k) ==
    IF k \in DOMAIN f THEN [ret |-> 1, key |-> k, value |-> f[k]] ELSE NotFound

\* the keys of the tree, from the left to the right
RECURSIVE InOrder(_, _)
InOrder(h, node) ==
    IF node = 0 THEN <<>>
    ELSE InOrder(h, h[node].left) \o <<h[node].key>> \o InOrder(h, h[node].right)

TreeKeys(m) == {InOrder(m.heap, m.root)[i] : i \in 1..Len(InOrder(m.heap, m.root))}

\* C27: the OrderedMap refines a sorted finite map.  After any sequence of
\* OrderedMap_insert and OrderedMap_remove, OrderedMap_get of a key succeeds,
\* with the value of the latest insert of the key, iff the key was inserted
\* and not removed since; OrderedMap_size is the number of keys present;
\* OrderedMap_remove returns 1 iff the key was present; OrderedMap_get_min and
\* OrderedMap_get_max give the smallest and the largest key present with its
\* value, and 0 on an empty map.
C27_Refinement ==
    /\ \A k \in Keys : OrderedMap_get(omap, k) = Lookup(model, k)
    /\ AVL_size(omap) = Cardinality(DOMAIN model)
    /\ AVL_get_min(omap) = IF DOMAIN model = {} THEN NotFound
                           ELSE Lookup(model, SetMin(DOMAIN model))
    /\ AVL_get_max(omap) = IF DOMAIN model = {} THEN NotFound
                           ELSE Lookup(model, SetMax(DOMAIN model))
    /\ mapret.op = "remove" =>
          mapret.ret = (IF mapret.key \in mapret.keys THEN 1 ELSE 0)
    /\ mapret.op = "get" => mapret.out = Lookup(model, mapret.key)
    /\ mapret.op = "get_min" => mapret.out = AVL_get_min(omap)
    /\ mapret.op = "get_max" => mapret.out = AVL_get_max(omap)
    /\ mapret.op = "size" => mapret.ret = Cardinality(DOMAIN model)

\* key 3 of the full map was removed, and a value that replaced another is
\* in the map
C27_Witness ==
    /\ mapret.op = "remove"
    /\ mapret.ret = 1
    /\ mapret.keys = Keys
    /\ mapret.key \notin {SetMin(Keys), SetMax(Keys)}
    /\ \E k \in DOMAIN model : model[k] = "v2"
    /\ InOrder(omap.heap, omap.root) = <<1, 2, 4>>

CurrentKey == IF iter.current = 0 THEN 0 ELSE omap.heap[iter.current].key

\* the iterator points to the live node that holds the key it stands on, or
\* to NULL when it stands past an end
OnItsKey ==
    IF iter.on = 0 THEN iter.current = 0
    ELSE /\ iter.current # 0
         /\ omap.heap[iter.current].live
         /\ omap.heap[iter.current].key = iter.on
         /\ omap.heap[iter.current].value = model[iter.on]

\* what the last call of the iterator did, given the key it stood on: front
\* and back go to the ends, next and prev to the neighbour of that key and
\* return 0 exactly when there is none, get gives the key and its value
MovedRight ==
    /\ mapret.op = "front" =>
          CurrentKey = (IF DOMAIN model = {} THEN 0 ELSE SetMin(DOMAIN model))
    /\ mapret.op = "back" =>
          CurrentKey = (IF DOMAIN model = {} THEN 0 ELSE SetMax(DOMAIN model))
    /\ (mapret.op = "next" /\ mapret.on \in DOMAIN model) =>
          /\ CurrentKey = Successor(model, mapret.on)
          /\ mapret.ret = (IF mapret.on = SetMax(DOMAIN model) THEN 0 ELSE 1)
    /\ (mapret.op = "prev" /\ mapret.on \in DOMAIN model) =>
          /\ CurrentKey = Predecessor(model, mapret.on)
          /\ mapret.ret = (IF mapret.on = SetMin(DOMAIN model) THEN 0 ELSE 1)
    /\ (mapret.op \in {"next", "prev"} /\ mapret.on = 0) =>
          mapret.ret = 0 /\ iter.current = 0
    /\ mapret.op = "iter_get" => mapret.out = Lookup(model, iter.on)

\* C29: on a map that is not modified, an iterator from OrderedMap_front
\* stepped with OrderedMapIterator_next visits every key once in strictly
\* increasing order, and next returns 0 exactly when it steps past the
\* maximum; one from OrderedMap_back stepped with OrderedMapIterator_prev
\* visits every key once in strictly decreasing order, and prev returns 0
\* exactly when it steps past the minimum; OrderedMapIterator_get returns 0
\* on an exhausted iterator and on an empty map.
C29_Iteration ==
    iter.fresh => OnItsKey /\ MovedRight

\* a walk from the front of a map of four keys has stepped past the maximum
C29_Witness ==
    /\ iter.fresh
    /\ DOMAIN model = Keys
    /\ mapret.op = "next"
    /\ mapret.on = SetMax(Keys)
    /\ mapret.ret = 0
    /\ iter.current = 0

\* C30: an iterator on key K stays valid across inserts and removes of other
\* keys and the rebalancing they cause, as long as K is present: its get
\* still gives K and its value, and next and prev move to the neighbours K
\* has by then, also when the key before K is removed after the iterator
\* has stepped from it to K.
C30_IteratorValid ==
    /\ iter.on \in DOMAIN model => OnItsKey
    /\ (mapret.op \in {"iter_get", "next", "prev"} /\ mapret.on \in DOMAIN model)
          => running /\ MovedRight

(***************************************************************************)
(* The HashTable against the finite map it stands for.                     *)
(***************************************************************************)
\* what the finite map m holds for a key, "NULL" for a key it does not hold
Stored(m, key) == IF key \in DOMAIN m THEN m[key] ELSE "NULL"

\* the number of nodes in the chains of a table
NodeCount(t) == Len(Chains(t, 0))

\* C31: over any sequence of adds and removes, doublings of the capacity
\* included, the HashTable stands for a finite map from keys to values: get
\* returns the value of the latest add of the key that no remove followed,
\* NULL otherwise; an add of a key already held replaces its value and leaves
\* size as it was; remove returns 0 and drops the key if it was held, and
\* returns non-zero and leaves the table as it was otherwise; size is the
\* number of keys held and the chains hold one node for each of them, so a
\* doubling loses, duplicates and alters nothing.
C31_HashTable ==
    /\ \A key \in HashKeys : HashTable_get(table, key) = Stored(hmodel, key)
    /\ table.size = Cardinality(DOMAIN hmodel)
    /\ NodeCount(table) = table.size
    /\ hashret.op = "get" => hashret.ret = Stored(hashret.model, hashret.key)
    /\ hashret.op = "add" =>
          /\ hashret.ret = 0
          /\ HashTable_get(table, hashret.key) = hashret.value
          /\ \A key \in HashKeys \ {hashret.key} :
                HashTable_get(table, key) = Stored(hashret.model, key)
          /\ table.size = IF hashret.key \in DOMAIN hashret.model
                          THEN hashret.table.size
                          ELSE hashret.table.size + 1
    /\ hashret.op = "remove" =>
          IF hashret.key \in DOMAIN hashret.model
          THEN /\ hashret.ret = 0
               /\ HashTable_get(table, hashret.key) = "NULL"
               /\ table.size = hashret.table.size - 1
               /\ \A key \in HashKeys \ {hashret.key} :
                     HashTable_get(table, key) = Stored(hashret.model, key)
          ELSE /\ hashret.ret # 0
               /\ table = hashret.table

\* an add of a key already held has just doubled the capacity of a table
\* with a chain of two nodes, and the value of the key was replaced
C31_Witness ==
    /\ hashret.op = "add"
    /\ hashret.key \in DOMAIN hashret.model
    /\ hashret.model[hashret.key] # hashret.value
    /\ table.capacity > hashret.table.capacity
    /\ \E i \in 0..(hashret.table.capacity - 1) :
          Len(hashret.table.buckets[i]) > 1

(***************************************************************************)
(* The shape of the AVL tree.                                              *)
(***************************************************************************)
\* the nodes of the subtree of a node
RECURSIVE Subtree(_, _)
Subtree(h, node) ==
    IF node = 0 THEN {}
    ELSE {node} \cup Subtree(h, h[node].left) \cup Subtree(h, h[node].right)

TreeNodes(m) == Subtree(m.heap, m.root)

StrictlyOrdered(s) == \A i, j \in 1..Len(s) : i < j => s[i] < s[j]

\* C32: after every OrderedMap_insert and OrderedMap_remove the tree is a
\* binary search tree of distinct keys (from the left to the right the keys
\* strictly increase), the height stored in each node is 1 + the greater of
\* the heights of its children, the balance factor of each node, the height
\* of the left child minus that of the right, is -1, 0 or 1, and map->size is
\* the number of nodes.
C32_AvlShape ==
    /\ StrictlyOrdered(InOrder(omap.heap, omap.root))
    /\ \A node \in TreeNodes(omap) :
          /\ omap.heap[node].live
          /\ omap.heap[node].height =
                1 + (IF get_height(omap.heap, omap.heap[node].left)
                          > get_height(omap.heap, omap.heap[node].right)
                     THEN get_height(omap.heap, omap.heap[node].left)
                     ELSE get_height(omap.heap, omap.heap[node].right))
          /\ get_balance(omap.heap, node) \in {-1, 0, 1}
    /\ omap.size = Cardinality(TreeNodes(omap))
    /\ omap.size = Len(InOrder(omap.heap, omap.root))

\* a remove has just taken the smallest key out of a tree of four keys, and
\* the three keys left hang under the middle one
C32_Witness ==
    /\ mapret.op = "remove"
    /\ mapret.ret = 1
    /\ mapret.key = 1
    /\ mapret.size = 4
    /\ omap.size = 3
    /\ omap.heap[omap.root].key = 3
    /\ omap.heap[omap.root].height = 2

(***************************************************************************)
(* The price level as a queue.                                             *)
(***************************************************************************)
\* C33: a price level is a FIFO queue.  OrderBookLevel_remove_order hands
\* back the orders in the order they were added, and on an empty level it
\* returns 0 and changes nothing; OrderBookLevel_delete_order_by_id takes out
\* the first order with the id and leaves the others in their order; after
\* any mix of pops and deletes, a delete of the tail or of the only order
\* included, OrderBookLevel_add_order puts the new order behind all that are
\* left.
C33_Fifo ==
    /\ ListOrders(olevel) = fifo
    /\ levelret.op = "remove" =>
          IF levelret.fifo = <<>>
          THEN levelret.ret = 0 /\ olevel = levelret.level
          ELSE /\ levelret.ret = 1
               /\ levelret.order = Head(levelret.fifo)
               /\ ListOrders(olevel) = Tail(ListOrders(levelret.level))
    /\ levelret.op = "delete" =>
          LET q == ListOrders(levelret.level)
              i == FirstIndex(q, levelret.order.order_id, 1)
          IN  IF i = 0
              THEN levelret.ret = 0 /\ olevel = levelret.level
              ELSE levelret.ret = 1 /\ ListOrders(olevel) = RemoveAt(q, i)
    /\ levelret.op = "add" =>
          /\ levelret.ret = 1
          /\ ListOrders(olevel)
                = Append(ListOrders(levelret.level), levelret.order)

\* the tail of a level of three orders was deleted by its id, which an order
\* before it did not carry, and the next order added is now the last of three
C33_Witness ==
    /\ levelret.op = "add"
    /\ levelret.prev.op = "delete"
    /\ levelret.prev.ret = 1
    /\ Len(levelret.prev.fifo) = 3
    /\ FirstIndex(levelret.prev.fifo, levelret.prev.order.order_id, 1) = 3
    /\ Len(fifo) = 3
    /\ fifo[3] = levelret.order

(***************************************************************************)
(* Orders that share an id.                                                *)
(***************************************************************************)
\* the orders that could be admitted to a side next: their side is that of
\* the side they rest on
Admissible(side) ==
    {Order(id, UserOf(id), qty, IF side.is_buy_side THEN BUY ELSE SELL, price, clock) :
        id \in 1..(submitted + 1), qty \in Qtys, price \in Prices}

\* what the admission of order to side, and the cancel of its id after it,
\* do when an order of the side carries the id already: both orders are in
\* their queues, the id index has not grown and its entry for the id refers
\* to the level of the new order; the cancel returns 1, takes one order of
\* the id out of that level and the entry out of the index, the other order
\* of the id still rests, and a further cancel of the id returns 0 and
\* changes nothing
DuplicateKept(side, other, order) ==
    LET id == order.order_id
        added == OrderBookSide_add_order(side, order)
        q == QueueAt(added, order.price)
    IN  /\ \A p \in Prices :
              QueueAt(added, p) = IF p = order.price
                                  THEN Append(QueueAt(side, p), order)
                                  ELSE QueueAt(side, p)
        /\ HashTable_size(added.order_lookup) = HashTable_size(side.order_lookup)
        /\ added.order_lookup[id] = LivePtr(order.price)
        /\ \A c \in OrderBookSide_delete_order_by_id(added, other, id) :
              /\ c.ret = 1 /\ ~c.crashed /\ c.other = other
              /\ \A p \in Prices :
                    QueueAt(c.side, p) =
                       IF p = order.price
                       THEN RemoveAt(q, FirstIndex(q, id, 1))
                       ELSE QueueAt(added, p)
              /\ id \notin DOMAIN c.side.order_lookup
              /\ id \in RestingIds(c.side)
              /\ \A d \in OrderBookSide_delete_order_by_id(c.side, other, id) :
                    d.ret = 0 /\ d.side = c.side /\ d.other = other

\* C34: the admission of a resting order under the id of an order that rests
\* on the same side and that the id index of the side still holds keeps both
\* orders in their level queues, does not grow the id index, and makes the
\* entry of the id refer to the level of the new order; a cancel of the id
\* after it takes one order out of that level and the entry out of the index,
\* and the other order of the id still rests but can no longer be cancelled.
C34_DuplicateIndexed ==
    \A side \in {bid_side, ask_side} :
       \A order \in Admissible(side) :
          (/\ order.order_id \in RestingIds(side)
           /\ order.order_id \in DOMAIN side.order_lookup)
             => DuplicateKept(side, IF side = bid_side THEN ask_side ELSE bid_side,
                              order)

\* the same of every id an order of the side carries, whether or not the id
\* index still holds the id
C34_Duplicate ==
    \A side \in {bid_side, ask_side} :
       \A order \in Admissible(side) :
          order.order_id \in RestingIds(side)
             => DuplicateKept(side, IF side = bid_side THEN ask_side ELSE bid_side,
                              order)

\* an order was admitted under the id of an order resting on its side, at
\* another price, and the cancel of the id that followed returned 1: an order
\* of the id still rests and the index of the side does not hold the id
C34_Witness ==
    /\ LastRemove
    /\ last.ret = 1
    /\ prior.call.op = "add"
    /\ prior.call.id = last.id
    /\ LET own0 == IF prior.call.order.side = BUY THEN prior.book.bid_side
                   ELSE prior.book.ask_side
           own1 == IF prior.call.order.side = BUY THEN before.bid_side
                   ELSE before.ask_side
           own2 == IF prior.call.order.side = BUY THEN bid_side ELSE ask_side
       IN  /\ last.id \in RestingIds(own0)
           /\ own0.order_lookup[last.id] # own1.order_lookup[last.id]
           /\ HashTable_size(own1.order_lookup) = HashTable_size(own0.order_lookup)
           /\ last.id \in RestingIds(own2)
           /\ last.id \notin DOMAIN own2.order_lookup

(***************************************************************************)
(* The book as a whole.                                                    *)
(***************************************************************************)
\* the last call rested what was left of its order
Rested == LastAdd /\ OwnAfter # OwnBefore

\* C35: the book is never crossed.  After any sequence of submits and cancels
\* with positive prices, whenever both sides have a price level, the highest
\* price of a bid level is below the lowest price of an ask level; and what
\* is left of an incoming order is rested only when no level of the opposite
\* side is left that crosses its limit.
C35_NeverCrossed ==
    /\ (OrderedMap_size(bid_side.levels) > 0 /\ OrderedMap_size(ask_side.levels) > 0)
          => OrderedMap_get_max(bid_side.levels) < OrderedMap_get_min(ask_side.levels)
    /\ Rested =>
          \A p \in DOMAIN ConsumedAfter.levels :
             ~compare_prices(p, Incoming.price, ConsumedAfter.is_buy_side)

\* an order has traded with the best level of the opposite side, what was
\* left of it rests, and the opposite side still has a level
C35_Witness ==
    /\ Rested
    /\ NewTrades # <<>>
    /\ OrderedMap_size(bid_side.levels) > 0
    /\ OrderedMap_size(ask_side.levels) > 0

\* the side an order rests on
OwnSideOf(o) == IF o.side = BUY THEN bid_side ELSE ask_side

\* the sizes, added up, of the trades of the log that name the id as the
\* order of its own side
TradedQty(id) ==
    LET hits == {k \in 1..Len(executed_trades) :
                   IF admitted[id].side = BUY
                   THEN executed_trades[k].buy_order_id = id
                   ELSE executed_trades[k].sell_order_id = id}
    IN  SumOver([k \in hits |-> executed_trades[k].size], hits)

\* C36: quantity is conserved order by order.  For every order admitted with
\* a quantity q > 0 under an id of its own and not cancelled, q is at every
\* point the sum of the sizes of the trades of the log that name the id on
\* the side of the order plus the quantity resting under the id; and the
\* order rests in the book iff that resting quantity is above 0.
C36_Conservation ==
    \A id \in DOMAIN admitted :
       (admitted[id].quantity > 0 /\ id \notin cancelled) =>
          LET own == OwnSideOf(admitted[id]) IN
          /\ admitted[id].quantity = TradedQty(id) + RestingQty(own, id)
          /\ id \in RestingIds(own) <=> RestingQty(own, id) > 0

\* an order has traded a part of its quantity and rests with what is left
C36_Witness ==
    \E id \in DOMAIN admitted :
       /\ id \notin cancelled
       /\ TradedQty(id) > 0
       /\ RestingQty(OwnSideOf(admitted[id]), id) > 0
       /\ admitted[id].quantity = TradedQty(id) + RestingQty(OwnSideOf(admitted[id]), id)

\* the k-th trade of the last call took less than its counterparty had
PartialFill(k) ==
    NewTrades[k].size < RestingQty(ConsumedBefore, Counterparty(NewTrades[k]))

\* C37: in a single submit at most one counterparty is filled in part; if one
\* is, its fill is the last of the call and leaves the incoming order with
\* nothing to fill; every other fill takes all of its counterparty and takes
\* the counterparty out of its level.
C37_OnePartialFill ==
    LastAdd =>
       \A k \in 1..Len(NewTrades) :
          IF PartialFill(k)
          THEN /\ k = Len(NewTrades)
               /\ TradedUpTo(Len(NewTrades)) = Incoming.quantity
               /\ OwnAfter = OwnBefore
          ELSE /\ NewTrades[k].size
                    = RestingQty(ConsumedBefore, Counterparty(NewTrades[k]))
               /\ Counterparty(NewTrades[k]) \notin RestingIds(ConsumedAfter)

\* a submit has filled one resting order in full and then a part of the next
C37_Witness ==
    /\ LastAdd
    /\ Len(NewTrades) = 2
    /\ ~PartialFill(1)
    /\ PartialFill(2)
    /\ Counterparty(NewTrades[2]) \in RestingIds(ConsumedAfter)

\* what a submit does to the book, whatever it was given for trade_count:
\* the fills of OrderBookSide_execute_against on the opposite side are made,
\* a trade is appended to the log for each of them, in their order, and what
\* is left of the order is rested on its own side
SubmitEffect ==
    LET ex == OrderBookSide_execute_against(ConsumedBefore, Incoming) IN
    /\ ConsumedAfter = ex.side
    /\ Len(NewTrades) = Len(ex.filled)
    /\ trade_count = before.trade_count + Len(ex.filled)
    /\ SubSeq(executed_trades, 1, before.trade_count) = before.executed_trades
    /\ \A k \in 1..Len(NewTrades) :
          NewTrades[k] = create_trade(ex.order, ex.filled[k],
                                      NewTrades[k].trade_id,
                                      NewTrades[k].timestamp)
    /\ OwnAfter = IF ex.order.quantity > 0
                  THEN OrderBookSide_add_order(OwnBefore, ex.order)
                  ELSE OwnBefore

\* C38: OrderBook_add_order with trade_count = NULL returns NULL and does to
\* the book what the same call with a trade_count does: the same fills are
\* made, the same trades are appended to the log and the same remainder is
\* rested.
C38_NullTradeCount ==
    /\ LastAdd => SubmitEffect
    /\ (LastAdd /\ ~last.has_tc) => last.ret_ids = <<>>

\* a submit with trade_count = NULL has traded and rested what was left
C38_Witness ==
    /\ LastAdd
    /\ ~last.has_tc
    /\ NewTrades # <<>>
    /\ OwnAfter # OwnBefore
    /\ last.ret_ids = <<>>

(***************************************************************************)
(* Queries.                                                                *)
(***************************************************************************)
\* C39: OrderBook_get_best_bid, OrderBook_get_best_ask,
\* OrderBook_get_top_levels, OrderBook_get_all_trades and OrderBook_get_trade
\* leave both sides, with their levels, queues, quantities and id indexes,
\* and the trade log as they are; and the trades OrderBook_get_all_trades and
\* OrderBook_get_trade return are copies of their own: a write to one of them
\* later leaves the log as it is.
C39_QueriesReadOnly ==
    [][(Queries \/ Writes) =>
          UNCHANGED <<bid_side, ask_side, executed_trades, trade_count>>]_vars

\* the caller has written to a trade that OrderBook_get_all_trades gave it:
\* the copy is not the trade of the log any more
C39_Witness ==
    /\ trade_count > 0
    /\ Len(observed) = trade_count
    /\ observed[1].size = 0
    /\ executed_trades[1].size > 0

(***************************************************************************)
(* Termination of the matching loops.                                      *)
(***************************************************************************)
\* each pass of a loop of OrderBookSide_execute_against that does not stop
\* its loop makes progress: a pass of the inner loop reduces the quantity of
\* the incoming order; a pass of the outer loop reduces that quantity, takes
\* a resting order out or takes a price level out.  At the return the state
\* of the call is the one the call as a whole yields
LoopProgress ==
    /\ exec.step = "fill" =>
          exec.st.order.quantity < exec.inner0.order.quantity
    /\ exec.step = "evict" =>
          \/ exec.st.order.quantity < exec.outer0.order.quantity
          \/ QueuedCount(exec.st.side) < QueuedCount(exec.outer0.side)
          \/ OrderedMap_size(exec.st.side.levels)
                < OrderedMap_size(exec.outer0.side.levels)
    /\ exec.pc = "done" =>
          exec.st = OrderBookSide_execute_against(exec.start, exec.given)

\* C40: every OrderBook_add_order call terminates from any reachable state of
\* the book, states with empty levels left by cancels included: each pass of
\* the matching loops of OrderBookSide_execute_against stops its loop,
\* reduces the quantity of the incoming order, takes a resting order out or
\* takes a price level out, and a run of the loops that has begun reaches the
\* return.
C40_Terminates ==
    /\ []LoopProgress
    /\ (exec.pc # "idle") ~> (exec.pc = "done")

\* the loops have returned after they took out a level that a cancel had
\* left empty and filled from the level behind it
C40_Witness ==
    /\ exec.pc = "done"
    /\ exec.st.filled # <<>>
    /\ \E p \in DOMAIN exec.start.levels :
          /\ exec.start.levels[p].q = <<>>
          /\ p \notin DOMAIN exec.st.side.levels

====
